---- MODULE Spec2Model ----
(***************************************************************************)
(* The Pomodoro phase timer of the calendar: the persistent hook           *)
(* usePomodoroTimer (src/unnamed/part_006) and the plain countdown hook of *)
(* the same name (src/hooks/use-pomodoro-timer.ts), both React function    *)
(* component hooks; a behaviour follows one of the two.  A callback of a   *)
(* hook reads the React state (state, storedState) and the arguments of    *)
(* the render that created it, while a setState only queues the new value  *)
(* until the next render; refs and localStorage change at once.  The model *)
(* keeps both: state/storedState are what the last render saw,             *)
(* stateQ/storedStateQ the queued values.                                  *)
(***************************************************************************)
EXTENDS Integers, Sequences, FiniteSets, TLC

(* ------------------------------ bounds -------------------------------- *)
\* Seconds in a modelled minute: the source multiplies minutes by 60; the
\* model's minute is SecPerMin seconds long so that a whole session fits
\* the explored horizon.
SecPerMin == 1
\* Clock ticks (the unit of now) in a second: the source's clock counts
\* milliseconds and divides by 1000 with Math.floor.
TicksPerSec == 1
\* Last clock value explored.
MaxNow == 9
\* Largest focus / recall duration (minutes) given to the hook.
MaxInput == 2
MaxOutput == 1
\* Most calls of the hook's operations (start, pause, resume, reset, skips),
\* reloads and changes of its arguments in one behaviour.
MaxOps == 3

(* ------------------------- program constants -------------------------- *)
\* const actualBreakDuration = 5; storedState.breakDuration || 5; 5 * 60
DefaultBreak == 5

InputDurations == 1..MaxInput
OutputDurations == 0..MaxOutput
NoEvent == "none"
EventIds == {"e1"}
\* an argument that was not passed (undefined)
Undef == -1

ActivePhases == {"input", "output", "break"}

VARIABLES
    hook,               \* which hook the component uses: "persistent" or "simple"
    now,                \* Date.now(), in clock ticks
    ls,                 \* localStorage: the record per event id, the active event id
    props,              \* the hook's arguments at the last render
    resolvedEventId,    \* resolvedEventId as computed by the last render
    storedState,        \* React state storedState as seen by the last render
    storedStateQ,       \* ... and its queued value
    storedDirty,        \* the queued storedState is a new object
    state,              \* React state `state` as seen by the last render
    stateQ,             \* ... and its queued value
    startTimeRef,       \* startTimeRef.current (0 = null)
    phaseStartTimeRef,  \* phaseStartTimeRef.current (0 = null)
    intervalRef,        \* intervalRef.current holds a live 1 Hz interval
    leaked,             \* live intervals that intervalRef no longer holds
    due,                \* plain hook: the interval callbacks of this second not yet
                        \* delivered, of intervalRef's interval and of the others
    last,               \* history: the operation of the last step
    calls,              \* history: the onPhaseChange calls of the last step
    pauseState,         \* history: "paused" from pause() to the next operation,
                        \*          "resumed" after the resume() that ended it
    ran,                \* history: clock ticks that passed unpaused since start(),
                        \*          -1 once anything but pause / resume intervened
                        \*          or the plain hook missed a callback
    ops,                \* history: the number of operations called so far
    events,             \* calendar: the events the component holds, in list order
    activePomodoro,     \* calendar: React state activePomodoro as of the last render
    activePomodoroQ,    \* ... and its queued value
    showBlurtingModal,  \* calendar: React state showBlurtingModal as of the last render
    showBlurtingModalQ, \* ... and its queued value
    blurting,           \* the state of useBlurtingSession as of the last render
    blurtingQ,          \* ... and its queued value
    logged,             \* history: the completion records posted to /api/pomodoro-logs
    eventType,          \* event form: React state eventType
    formState,          \* event form: React state formState (its dates as their
                        \* difference in minutes)
    totalMinutes,       \* history: the argument of the last call of the allocator
    plan,               \* history: what that call returned
    saved               \* history: what the last submit handed to onSave

vars == <<hook, now, ls, props, resolvedEventId, storedState, storedStateQ, storedDirty,
          state, stateQ, startTimeRef, phaseStartTimeRef, intervalRef, leaked, due,
          last, calls, pauseState, ran, ops, events, activePomodoro, activePomodoroQ,
          showBlurtingModal, showBlurtingModalQ, blurting, blurtingQ, logged,
          eventType, formState, totalMinutes, plan, saved>>

\* the state of the event form and the history of its allocator
formVars == <<eventType, formState, totalMinutes, plan, saved>>

\* the state of the calendar component around the hook
calVars ==
    <<events, activePomodoro, activePomodoroQ, showBlurtingModal, showBlurtingModalQ,
      blurting, blurtingQ, logged>>

(* ------------------------------ helpers ------------------------------- *)
NoStored ==
    [phase |-> "none", startTime |-> 0, totalSeconds |-> 0, inputDuration |-> 0,
     outputDuration |-> 0, breakDuration |-> 0, eventId |-> NoEvent]

Has(s) == s.phase # "none"

Max(a, b) == IF a >= b THEN a ELSE b

\* Math.floor((now - t) / 1000)
ElapsedSeconds(t) == (now - t) \div TicksPerSec

\* the memory a callback changes at once: localStorage, refs, queued state
Mem ==
    [ls |-> ls, storedStateQ |-> storedStateQ, storedDirty |-> storedDirty,
     stateQ |-> stateQ, startTimeRef |-> startTimeRef,
     phaseStartTimeRef |-> phaseStartTimeRef, intervalRef |-> intervalRef,
     leaked |-> leaked, due |-> due, calls |-> <<>>]

\* what the callbacks of the last render closed over
Closure ==
    [storedState |-> storedState, state |-> state, props |-> props,
     resolvedEventId |-> resolvedEventId]

\* const resolvedEventId = eventId ?? localStorage.getItem(ACTIVE_POMODORO_KEY)
ResolveEventId(p, store) == IF p.eventId # NoEvent THEN p.eventId ELSE store.active

\* const targetEventId = eventId ?? resolvedEventId
TargetEventId(c) ==
    IF c.props.eventId # NoEvent THEN c.props.eventId ELSE c.resolvedEventId

Notify(m, phase) == [m EXCEPT !.calls = Append(m.calls, phase)]

IdleState(p) ==
    [phase |-> "idle", remainingSeconds |-> p.inputDuration * SecPerMin,
     totalSeconds |-> p.inputDuration * SecPerMin, isRunning |-> FALSE,
     inputDuration |-> p.inputDuration, outputDuration |-> p.outputDuration,
     breakDuration |-> DefaultBreak]

\* the initial state of the plain hook
SimpleIdle(p) ==
    [phase |-> "idle", remainingSeconds |-> p.inputDuration * SecPerMin,
     totalSeconds |-> p.inputDuration * SecPerMin, isRunning |-> FALSE,
     inputDuration |-> p.inputDuration, outputDuration |-> p.outputDuration]

\* storedState.breakDuration || 5
BreakOf(s) == IF s.breakDuration = 0 THEN DefaultBreak ELSE s.breakDuration

calculateRemaining(stored, phaseStart, p) ==
    IF ~Has(stored) \/ phaseStart = 0
    THEN p.inputDuration * SecPerMin
    ELSE Max(0, stored.totalSeconds - ElapsedSeconds(phaseStart))

getInitialState(stored, phaseStart, p) ==
    IF Has(stored)
    THEN LET remaining == calculateRemaining(stored, phaseStart, p)
         IN  [phase |-> stored.phase, remainingSeconds |-> remaining,
              totalSeconds |-> stored.totalSeconds, isRunning |-> remaining > 0,
              inputDuration |-> stored.inputDuration,
              outputDuration |-> stored.outputDuration,
              breakDuration |-> BreakOf(stored)]
    ELSE IdleState(p)

\* saveState() that writes nothing: what C17 rules out
saveNothing(m, c, phase, totalSeconds, startTime, customIn, customOut) == m

saveState(m, c, phase, totalSeconds, startTime, customIn, customOut) ==
    LET target == TargetEventId(c)
        rec == [phase |-> phase, startTime |-> startTime, totalSeconds |-> totalSeconds,
                inputDuration |-> IF customIn = Undef THEN c.props.inputDuration
                                  ELSE customIn,
                outputDuration |-> IF customOut = Undef THEN c.props.outputDuration
                                   ELSE customOut,
                breakDuration |-> DefaultBreak, eventId |-> target]
    IN  IF target # NoEvent
        THEN [m EXCEPT !.ls = [records |-> [m.ls.records EXCEPT ![target] = rec],
                               active |-> target],
                       !.storedStateQ = rec, !.storedDirty = TRUE]
        ELSE m

clearSavedState(m, c) ==
    LET target == TargetEventId(c)
    IN  IF target # NoEvent
        THEN [m EXCEPT !.ls = [records |-> [m.ls.records EXCEPT ![target] = NoStored],
                               active |-> NoEvent],
                       !.storedStateQ = NoStored, !.storedDirty = FALSE,
                       !.startTimeRef = 0, !.phaseStartTimeRef = 0]
        ELSE m

NoneDue == [ref |-> FALSE, others |-> 0]

\* clearTimer() that leaves the interval running: what C16 rules out
keepTimer(m) == m

clearTimer(m) == [m EXCEPT !.intervalRef = FALSE, !.due = [m.due EXCEPT !.ref = FALSE]]

\* a timed transition into output or break
EnterPhase(m, c, phase, seconds) ==
    LET m1 == [m EXCEPT !.phaseStartTimeRef = now]
        m2 == saveState(m1, c, phase, seconds,
                        IF m.startTimeRef # 0 THEN m.startTimeRef ELSE now,
                        c.storedState.inputDuration, c.storedState.outputDuration)
        m3 == Notify(m2, phase)
    IN  [m3 EXCEPT !.stateQ = [m3.stateQ EXCEPT !.phase = phase,
                                                !.remainingSeconds = seconds,
                                                !.totalSeconds = seconds,
                                                !.isRunning = TRUE]]

CompleteSession(m, c) ==
    LET m1 == Notify(clearSavedState(clearTimer(m), c), "completed")
    IN  [m1 EXCEPT !.stateQ = [m1.stateQ EXCEPT !.phase = "completed",
                                                !.remainingSeconds = 0,
                                                !.isRunning = FALSE]]

\* updateTimer() that writes the difference whatever its sign: what C18 rules out
updateTimerUnclamped(m, c) ==
    IF ~Has(c.storedState) \/ m.phaseStartTimeRef = 0
    THEN m
    ELSE [m EXCEPT !.stateQ =
             [m.stateQ EXCEPT !.remainingSeconds =
                                  c.storedState.totalSeconds
                                  - ElapsedSeconds(m.phaseStartTimeRef),
                              !.isRunning = TRUE]]

updateTimer(m, c) ==
    IF ~Has(c.storedState) \/ m.phaseStartTimeRef = 0
    THEN m
    ELSE LET remaining == c.storedState.totalSeconds - ElapsedSeconds(m.phaseStartTimeRef)
         IN  IF remaining <= 0
             THEN CASE c.storedState.phase = "input" ->
                         IF c.storedState.outputDuration > 0
                         THEN EnterPhase(m, c, "output",
                                         c.storedState.outputDuration * SecPerMin)
                         ELSE EnterPhase(m, c, "break", BreakOf(c.storedState) * SecPerMin)
                    [] c.storedState.phase = "output" ->
                         EnterPhase(m, c, "break", BreakOf(c.storedState) * SecPerMin)
                    [] c.storedState.phase = "break" -> CompleteSession(m, c)
                    [] OTHER -> m
             ELSE [m EXCEPT !.stateQ = [m.stateQ EXCEPT !.remainingSeconds = remaining,
                                                        !.isRunning = TRUE]]

(* ------------------------------ effects ------------------------------- *)
\* useEffect: if (storedState) setState(getInitialState())
EffectSyncState(m, c) ==
    IF Has(c.storedState)
    THEN [m EXCEPT !.stateQ = getInitialState(c.storedState, m.phaseStartTimeRef, c.props)]
    ELSE m

\* useEffect on state.isRunning: the one 1 Hz interval
EffectInterval(m, c) == [m EXCEPT !.intervalRef = c.state.isRunning]

\* useEffect: auto-resume timer if stored state exists
EffectAutoResume(m, c) ==
    IF Has(c.storedState) /\ c.storedState.phase \notin {"idle", "completed"}
    THEN LET remaining == calculateRemaining(c.storedState, m.phaseStartTimeRef, c.props)
         IN  IF remaining > 0
             THEN [m EXCEPT !.phaseStartTimeRef =
                                now - (c.storedState.totalSeconds - remaining) * TicksPerSec,
                            !.stateQ = [m.stateQ EXCEPT
                                !.phase = c.storedState.phase,
                                !.remainingSeconds = remaining,
                                !.totalSeconds = c.storedState.totalSeconds,
                                !.isRunning = TRUE,
                                !.inputDuration = c.storedState.inputDuration,
                                !.outputDuration = c.storedState.outputDuration,
                                !.breakDuration = BreakOf(c.storedState)]]
             ELSE updateTimer(m, c)
    ELSE m

\* a number that is not one: arithmetic on a field the parsed value does not have
NaN == -2

\* items of localStorage the hook did not write: a text that is not JSON, the
\* JSON text null, and the JSON object without any field
Unparsable == [NoStored EXCEPT !.phase = "unparsable"]
JsonNull == [NoStored EXCEPT !.phase = "null"]
EmptyObject ==
    [phase |-> "undefined", startTime |-> NaN, totalSeconds |-> NaN, inputDuration |-> NaN,
     outputDuration |-> NaN, breakDuration |-> NaN, eventId |-> NoEvent]

\* JSON.parse(stored) throws a SyntaxError, or parsed.startTime a TypeError
ParseThrows(item) == item.phase \in {"unparsable", "null"}

\* Math.floor((now - t) / 1000) < total, which is false when either is NaN
ElapsedBelow(t, total) == t # NaN /\ total # NaN /\ ElapsedSeconds(t) < total

\* the initializer without its checks: what C21 rules out
LoadStoredUnchecked(store, resolved) ==
    [stored |-> IF resolved = NoEvent THEN NoStored ELSE store.records[resolved],
     ls |-> store]

\* the storedState initializer of useState: what is loaded, and what is left in
\* storage; the try / catch around it turns every exception into null
LoadStored(store, resolved) ==
    IF resolved = NoEvent \/ ~Has(store.records[resolved])
    THEN [stored |-> NoStored, ls |-> store]
    ELSE LET parsed == store.records[resolved]
         IN  IF ParseThrows(parsed)
             THEN [stored |-> NoStored, ls |-> store]
             ELSE IF ElapsedBelow(parsed.startTime, parsed.totalSeconds)
             THEN [stored |-> parsed, ls |-> store]
             ELSE [stored |-> NoStored,
                   ls |-> [records |-> [store.records EXCEPT ![resolved] = NoStored],
                           active |-> NoEvent]]

(* ---------- the recall recorder (src/hooks/use-blurting-session.ts) ----- *)
\* the texts typed into the recorder; "" is the empty text
Texts == {"", "a"}

\* useState's initial value, and what resetSession() sets; a Date that is null is 0
FreshSession == [isActive |-> FALSE, blurtingText |-> "", startedAt |-> 0, endedAt |-> 0]

\* startSession() that keeps what the recorder held: what C28 rules out
startSessionKeepsText(b) == [b EXCEPT !.isActive = TRUE, !.startedAt = now]

startSession(b) == [isActive |-> TRUE, blurtingText |-> "", startedAt |-> now, endedAt |-> 0]

endSession(b) == [b EXCEPT !.isActive = FALSE, !.endedAt = now]

updateText(b, text) == [b EXCEPT !.blurtingText = text]

resetSession(b) == FreshSession

\* getSessionDuration() that reads the clock whether or not the session has
\* ended: what C29 rules out
getSessionDurationLive(b) ==
    IF b.startedAt = 0 THEN 0 ELSE (now - b.startedAt) \div TicksPerSec

\* Math.floor((endTime.getTime() - state.startedAt.getTime()) / 1000), of the state
\* the callback closed over
getSessionDuration(b) ==
    IF b.startedAt = 0 THEN 0
    ELSE ((IF b.endedAt # 0 THEN b.endedAt ELSE now) - b.startedAt) \div TicksPerSec

(* ------------------------ the calendar component ---------------------- *)
\* activePomodoro === null
NoActive ==
    [id |-> NoEvent, isPomodoro |-> FALSE, startAt |-> 0, endAt |-> 0,
     inputDuration |-> 0, outputDuration |-> 0]

\* the component before it has any event and any session
CalIdle ==
    /\ events = <<>>
    /\ activePomodoro = NoActive
    /\ activePomodoroQ = NoActive
    /\ showBlurtingModal = FALSE
    /\ showBlurtingModalQ = FALSE
    /\ blurting = FreshSession
    /\ blurtingQ = FreshSession
    /\ logged = <<>>

(* ------------- the event form and its duration allocator -------------- *)
\* (EventCreateModal and calculateDefaultPomodoroSettings, src/unnamed/part_003)
WITH_BLURTING_FOCUS == 20
WITH_BLURTING_OUTPUT == 5
WITHOUT_BLURTING_FOCUS == 25
WITHOUT_BLURTING_OUTPUT == 0
STANDARD_CYCLE_DURATION == 30
MIN_POMODORO_DURATION == 25
MIN_POMODORO_WITH_BREAK_DURATION == 30
\* longBreakDuration: 15 of a plan and of the empty form
LongBreak == 15
\* Math.max(15, differenceInMinutes(end, start)), and 60 without dates
MinEventDuration == 15
DefaultEventDuration == 60

\* the allocator returned null
NoPlan ==
    [inputDuration |-> 0, outputDuration |-> 0, longBreakDuration |-> 0, sets |-> 0,
     isStandardCycle |-> FALSE]

\* formState.startAt or formState.endAt is ""
NoDates == -1

\* the form as useState creates it and as closing the modal resets it
EmptyForm ==
    [minutes |-> NoDates, isPomodoro |-> TRUE, inputDuration |-> WITH_BLURTING_FOCUS,
     outputDuration |-> WITH_BLURTING_OUTPUT, longBreakDuration |-> LongBreak, sets |-> 1]

\* nothing was handed to onSave
NoSaved == [EmptyForm EXCEPT !.sets = 0]

FormIdle ==
    /\ eventType = "pomodoro"
    /\ formState = EmptyForm
    /\ totalMinutes = NoDates
    /\ plan = NoPlan
    /\ saved = NoSaved

(* --------------------------- history variables ------------------------ *)
Operations ==
    {"start", "pause", "resume", "reset", "skipToOutput", "skipToBreak", "mount", "setProps",
     "delete"}

Clean == stateQ = state /\ storedStateQ = storedState /\ ~storedDirty

TimerEvents == {"tick", "visible", "hidden", "resync"}

History(m, op) ==
    /\ last' = op
    /\ ops' = IF op \in Operations THEN ops + 1 ELSE ops
    /\ pauseState' =
         CASE op = "pause" ->
                IF state.isRunning /\ state.phase \in ActivePhases
                THEN "paused" ELSE "none"
           [] op = "resume" -> IF pauseState = "paused" THEN "resumed" ELSE "none"
           [] op \in Operations \ {"pause", "resume"} -> "none"
           [] OTHER -> pauseState
    /\ ran' =
         CASE op = "start" -> 0
           [] op \in Operations \ {"start", "pause", "resume"} -> -1
           [] op = "resume" -> IF pauseState = "paused" THEN ran ELSE -1
           [] m.calls # <<>> -> -1
           [] op = "pause" ->
                IF /\ ran >= 0
                   /\ ran % TicksPerSec = 0
                   /\ state.remainingSeconds = state.totalSeconds - ran \div TicksPerSec
                THEN ran ELSE -1
           [] op = "advance" ->
                IF ran >= 0 /\ (due.ref \/ due.others > 0) THEN -1
                ELSE IF ran >= 0 /\ pauseState # "paused" THEN ran + 1 ELSE ran
           [] op \in TimerEvents /\ pauseState = "paused" -> -1
           [] OTHER -> ran

ApplyMem(m, op) ==
    /\ ls' = m.ls
    /\ storedStateQ' = m.storedStateQ
    /\ storedDirty' = m.storedDirty
    /\ stateQ' = m.stateQ
    /\ startTimeRef' = m.startTimeRef
    /\ phaseStartTimeRef' = m.phaseStartTimeRef
    /\ intervalRef' = m.intervalRef
    /\ leaked' = m.leaked
    /\ due' = m.due
    /\ calls' = m.calls
    /\ hook' = hook
    /\ History(m, op)

\* a step of the hook alone: the component around it stays as it is
Apply(m, op) == ApplyMem(m, op) /\ UNCHANGED calVars /\ UNCHANGED formVars

Rendered == UNCHANGED <<props, resolvedEventId, storedState, state>>

(* ------------------------------ rendering ----------------------------- *)
\* One render with arguments p: the queued state is committed and the effects
\* whose dependencies changed run, in the order of their declaration.
RenderMem(p) ==
    LET ss1 == storedStateQ
        st1 == stateQ
        res1 == ResolveEventId(p, ls)
        c1 == [storedState |-> ss1, state |-> st1, props |-> p, resolvedEventId |-> res1]
        storedChanged == storedDirty \/ ss1 # storedState
        durChanged == \/ p.inputDuration # props.inputDuration
                      \/ p.outputDuration # props.outputDuration
        idChanged == p.eventId # props.eventId \/ res1 # resolvedEventId
        m0 == [Mem EXCEPT !.storedDirty = FALSE]
        m1 == IF storedChanged \/ durChanged THEN EffectSyncState(m0, c1) ELSE m0
        m2 == IF st1.isRunning # state.isRunning THEN EffectInterval(m1, c1) ELSE m1
        m3 == IF storedChanged \/ durChanged \/ idChanged
              THEN EffectAutoResume(m2, c1) ELSE m2
    IN  [m |-> m3, c |-> c1]

\* the render commits what it saw
Commit(c) ==
    /\ storedState' = c.storedState
    /\ state' = c.state
    /\ props' = c.props
    /\ resolvedEventId' = c.resolvedEventId

DoRender(p, op) ==
    LET r == RenderMem(p)
    IN  /\ Commit(r.c)
        /\ Apply(r.m, op)
        /\ UNCHANGED now

\* a render of the plain hook: it has no effect that reads its state
SimpleRender(p, op) ==
    /\ state' = stateQ
    /\ props' = p
    /\ Apply(Mem, op)
    /\ UNCHANGED <<now, resolvedEventId, storedState>>

\* The first render of a new instance of the hook: the initializers, then
\* every effect.
MountMem(p) ==
    LET res1 == ResolveEventId(p, ls)
        ld == LoadStored(ls, res1)
        ref == IF Has(ld.stored) THEN ld.stored.startTime ELSE 0
        st1 == getInitialState(ld.stored, ref, p)
        c1 == [storedState |-> ld.stored, state |-> st1, props |-> p,
               resolvedEventId |-> res1]
        m0 == [ls |-> ld.ls, storedStateQ |-> ld.stored, storedDirty |-> FALSE,
               stateQ |-> st1, startTimeRef |-> ref, phaseStartTimeRef |-> ref,
               intervalRef |-> FALSE, leaked |-> 0, due |-> NoneDue,
               calls |-> <<>>]
        m1 == EffectSyncState(m0, c1)
        m2 == EffectInterval(m1, c1)
        m3 == EffectAutoResume(m2, c1)
    IN  [m |-> m3, c |-> c1]

DoMount(p, op) ==
    LET r == MountMem(p)
    IN  /\ Commit(r.c)
        /\ Apply(r.m, op)
        /\ UNCHANGED now

PropsSet ==
    [inputDuration : InputDurations, outputDuration : OutputDurations,
     eventId : EventIds \cup {NoEvent}]

\* the arguments of the first mount
InitProps == {p \in PropsSet : p.inputDuration = MaxInput}

(* ------------------------------- actions ------------------------------ *)
Init ==
    /\ hook \in {"persistent", "simple"}
    /\ now = 1
    /\ ls = [records |-> [e \in EventIds |-> NoStored], active |-> NoEvent]
    /\ props \in InitProps
    /\ hook = "simple" => props.eventId = NoEvent
    /\ resolvedEventId = props.eventId
    /\ storedState = NoStored
    /\ storedStateQ = NoStored
    /\ storedDirty = FALSE
    /\ state = IF hook = "simple" THEN SimpleIdle(props) ELSE IdleState(props)
    /\ stateQ = state
    /\ leaked = 0
    /\ due = NoneDue
    /\ startTimeRef = 0
    /\ phaseStartTimeRef = 0
    /\ intervalRef = FALSE
    /\ last = "mount"
    /\ calls = <<>>
    /\ pauseState = "none"
    /\ ran = -1
    /\ ops = 0
    /\ CalIdle
    /\ FormIdle

\* The wall clock moves on by one tick; React has rendered what was queued by
\* then.  The clock is read from the first call of an operation on: nothing
\* depends on the time that passed before it.  With every full second each
\* live interval of the plain hook has one callback to deliver; the persistent
\* hook computes from the clock, whenever its callback comes.
Advance ==
    /\ now < MaxNow
    /\ ops > 0
    /\ Clean
    /\ now' = now + 1
    /\ Rendered
    /\ Apply(IF hook = "simple" /\ (now' - 1) % TicksPerSec = 0
             THEN [Mem EXCEPT !.due = [ref |-> intervalRef, others |-> leaked]]
             ELSE Mem,
             "advance")

\* React renders the queued state
Render ==
    /\ ~Clean
    /\ IF hook = "simple" THEN SimpleRender(props, "render") ELSE DoRender(props, "render")

\* the 1 Hz interval fires: tickRef.current()
\* (a suspended or throttled page delivers it late or not at all)
Tick ==
    /\ hook = "persistent"
    /\ intervalRef
    /\ Apply(updateTimer(Mem, Closure), "tick")
    /\ Rendered
    /\ UNCHANGED now

\* The operations the hook returns are called from event handlers of the
\* component, once React has rendered what the previous step queued (Clean).
start(m, c, customIn, customOut) ==
    LET actualIn == IF customIn = Undef THEN c.props.inputDuration ELSE customIn
        actualOut == IF customOut = Undef THEN c.props.outputDuration ELSE customOut
        inputSeconds == actualIn * SecPerMin
        m1 == [m EXCEPT !.startTimeRef = now, !.phaseStartTimeRef = now]
        m2 == saveState(m1, c, "input", inputSeconds, now, actualIn, actualOut)
        m3 == [m2 EXCEPT !.stateQ =
                  [phase |-> "input", remainingSeconds |-> inputSeconds,
                   totalSeconds |-> inputSeconds, isRunning |-> TRUE,
                   inputDuration |-> actualIn, outputDuration |-> actualOut,
                   breakDuration |-> DefaultBreak]]
    IN  Notify(m3, "input")

Start ==
    /\ hook = "persistent"
    /\ Clean
    /\ ops < MaxOps
    /\ \/ Apply(start(Mem, Closure, Undef, Undef), "start")
       \/ \E ci \in InputDurations, co \in OutputDurations :
             Apply(start(Mem, Closure, ci, co), "start")
    /\ Rendered
    /\ UNCHANGED now

pause(m) == [m EXCEPT !.stateQ = [m.stateQ EXCEPT !.isRunning = FALSE]]

Pause ==
    /\ hook = "persistent"
    /\ Clean
    /\ ops < MaxOps
    /\ Apply(pause(Mem), "pause")
    /\ Rendered
    /\ UNCHANGED now

\* resume() without its guard: what C10 rules out
ResumeNeverRejected(c) == FALSE

\* if (!storedState || storedState.phase === 'idle' || storedState.phase === 'completed') return
ResumeRejected(c) ==
    \/ ~Has(c.storedState)
    \/ c.storedState.phase = "idle"
    \/ c.storedState.phase = "completed"

resume(m, c) ==
    IF ResumeRejected(c)
    THEN m
    ELSE LET elapsedReal == c.state.totalSeconds - c.state.remainingSeconds
             newStartTime == now - elapsedReal * TicksPerSec
             m1 == [m EXCEPT !.phaseStartTimeRef = newStartTime,
                             !.startTimeRef = newStartTime]
             m2 == saveState(m1, c, c.storedState.phase, c.storedState.totalSeconds,
                             newStartTime, c.storedState.inputDuration,
                             c.storedState.outputDuration)
         IN  [m2 EXCEPT !.stateQ = [m2.stateQ EXCEPT !.isRunning = TRUE]]

Resume ==
    /\ hook = "persistent"
    /\ Clean
    /\ ops < MaxOps
    /\ Apply(resume(Mem, Closure), "resume")
    /\ Rendered
    /\ UNCHANGED now

\* reset() that leaves the persisted record alone: what C11 rules out
resetKeepsRecord(m, c) == [m EXCEPT !.stateQ = IdleState(c.props)]

\* also called by handleEventDelete when the bound event is deleted
reset(m, c) == [clearSavedState(m, c) EXCEPT !.stateQ = IdleState(c.props)]

Reset ==
    /\ hook = "persistent"
    /\ Clean
    /\ ops < MaxOps
    /\ Apply(reset(Mem, Closure), "reset")
    /\ Rendered
    /\ UNCHANGED now

skipToBreak(m, c) ==
    LET breakSeconds == DefaultBreak * SecPerMin
        m1 == [m EXCEPT !.phaseStartTimeRef = now]
        m2 == saveState(m1, c, "break", breakSeconds,
                        IF m.startTimeRef # 0 THEN m.startTimeRef ELSE now, Undef, Undef)
        m3 == [m2 EXCEPT !.stateQ = [m2.stateQ EXCEPT !.phase = "break",
                                                      !.remainingSeconds = breakSeconds,
                                                      !.totalSeconds = breakSeconds,
                                                      !.isRunning = TRUE]]
    IN  Notify(m3, "break")

\* handleEventDelete(eventId) of the calendar, once the server has deleted the
\* event: the timer is reset only if the event is the component's
\* activePomodoro, whose id is the eventId argument of the hook
handleEventDelete(m, c, e) == IF c.props.eventId = e THEN reset(m, c) ELSE m

\* the event the timer is bound to is deleted (deleting another event does not
\* touch the timer)
DeleteEvent ==
    /\ hook = "persistent"
    /\ Clean
    /\ 0 < ops /\ ops < MaxOps
    /\ TargetEventId(Closure) # NoEvent
    /\ Apply(handleEventDelete(Mem, Closure, TargetEventId(Closure)), "delete")
    /\ Rendered
    /\ UNCHANGED now

SkipToBreak ==
    /\ hook = "persistent"
    /\ Clean
    /\ ops < MaxOps
    /\ Apply(skipToBreak(Mem, Closure), "skipToBreak")
    /\ Rendered
    /\ UNCHANGED now

skipToOutput(m, c) ==
    IF ~Has(c.storedState) \/ c.storedState.phase # "input"
    THEN m
    ELSE IF c.props.outputDuration > 0
         THEN LET outputSeconds == c.props.outputDuration * SecPerMin
                  m1 == [m EXCEPT !.phaseStartTimeRef = now]
                  m2 == saveState(m1, c, "output", outputSeconds,
                                  IF m.startTimeRef # 0 THEN m.startTimeRef ELSE now,
                                  Undef, Undef)
                  m3 == [m2 EXCEPT !.stateQ =
                            [m2.stateQ EXCEPT !.phase = "output",
                                              !.remainingSeconds = outputSeconds,
                                              !.totalSeconds = outputSeconds,
                                              !.isRunning = TRUE]]
              IN  Notify(m3, "output")
         ELSE skipToBreak(m, c)

SkipToOutput ==
    /\ hook = "persistent"
    /\ Clean
    /\ ops < MaxOps
    /\ Apply(skipToOutput(Mem, Closure), "skipToOutput")
    /\ Rendered
    /\ UNCHANGED now

\* document's visibilitychange event
handleVisibilityChange(m, c, visibility) ==
    IF /\ visibility = "visible"
       /\ Has(c.storedState)
       /\ c.storedState.phase # "idle"
       /\ c.storedState.phase # "completed"
    THEN updateTimer(m, c)
    ELSE m

VisibilityChange ==
    /\ hook = "persistent"
    /\ \E v \in {"visible", "hidden"} : Apply(handleVisibilityChange(Mem, Closure, v), v)
    /\ Rendered
    /\ UNCHANGED now

\* the 3-minute sync interval, installed while state.isRunning, fires
Resync ==
    /\ hook = "persistent"
    /\ state.isRunning
    /\ Apply(updateTimer(Mem, Closure), "resync")
    /\ Rendered
    /\ UNCHANGED now

\* the page is reloaded: a new instance of the hook mounts on the same storage
Remount ==
    /\ hook = "persistent"
    /\ Clean
    /\ 0 < ops /\ ops < MaxOps
    /\ \E p \in PropsSet : DoMount(p, "mount")

\* the component renders the hook with other arguments
SetProps ==
    /\ hook = "persistent"
    /\ Clean
    /\ 0 < ops /\ ops < MaxOps
    /\ \E p \in PropsSet \ {props} : DoRender(p, "setProps")

(* ------- the plain countdown hook (src/hooks/use-pomodoro-timer.ts) ---- *)
\* setInterval(tick, 1000): the interval intervalRef held before stays alive
\* unless clearTimer() cleared it first
SetInterval(m) ==
    [m EXCEPT !.leaked = IF m.intervalRef THEN m.leaked + 1 ELSE m.leaked,
              !.due = [ref |-> FALSE,
                       others |-> IF m.intervalRef /\ m.due.ref
                                  THEN m.due.others + 1 ELSE m.due.others],
              !.intervalRef = TRUE]

\* the updater tick() hands to setState, applied to the queued state
SimpleTickUpdate(m) ==
    LET prev == m.stateQ
        newRemaining == prev.remainingSeconds - 1
    IN  IF ~prev.isRunning \/ prev.phase = "idle" \/ prev.phase = "completed"
        THEN m
        ELSE IF newRemaining <= 0 /\ prev.phase = "input"
        THEN Notify([m EXCEPT !.stateQ =
                        [prev EXCEPT !.phase = "output",
                                     !.remainingSeconds = prev.outputDuration * SecPerMin,
                                     !.totalSeconds = prev.outputDuration * SecPerMin]],
                    "output")
        ELSE IF newRemaining <= 0 /\ prev.phase = "output"
        THEN Notify([clearTimer(m) EXCEPT !.stateQ =
                        [prev EXCEPT !.phase = "completed", !.remainingSeconds = 0,
                                     !.isRunning = FALSE]],
                    "completed")
        ELSE [m EXCEPT !.stateQ = [prev EXCEPT !.remainingSeconds = newRemaining]]

\* one of the live intervals delivers its callback of this second
SimpleTick ==
    /\ hook = "simple"
    /\ \/ /\ due.ref
          /\ Apply(SimpleTickUpdate([Mem EXCEPT !.due = [due EXCEPT !.ref = FALSE]]), "tick")
       \/ /\ due.others > 0
          /\ Apply(SimpleTickUpdate([Mem EXCEPT !.due = [due EXCEPT !.others = @ - 1]]),
                   "tick")
    /\ Rendered
    /\ UNCHANGED now

SimpleStartState(p) ==
    [phase |-> "input", remainingSeconds |-> p.inputDuration * SecPerMin,
     totalSeconds |-> p.inputDuration * SecPerMin, isRunning |-> TRUE,
     inputDuration |-> p.inputDuration, outputDuration |-> p.outputDuration]

SimpleStart ==
    /\ hook = "simple"
    /\ Clean
    /\ ops < MaxOps
    /\ Apply(SetInterval(Notify([clearTimer(Mem) EXCEPT !.stateQ = SimpleStartState(props)],
                                "input")),
             "start")
    /\ Rendered
    /\ UNCHANGED now

SimplePause ==
    /\ hook = "simple"
    /\ Clean
    /\ ops < MaxOps
    /\ Apply(pause(clearTimer(Mem)), "pause")
    /\ Rendered
    /\ UNCHANGED now

\* if (state.phase === 'idle' || state.phase === 'completed') return
SimpleResumeRejected(c) == c.state.phase = "idle" \/ c.state.phase = "completed"

SimpleResume ==
    /\ hook = "simple"
    /\ Clean
    /\ ops < MaxOps
    /\ Apply(IF SimpleResumeRejected(Closure)
             THEN Mem
             ELSE SetInterval([Mem EXCEPT !.stateQ = [stateQ EXCEPT !.isRunning = TRUE]]),
             "resume")
    /\ Rendered
    /\ UNCHANGED now

SimpleReset ==
    /\ hook = "simple"
    /\ Clean
    /\ ops < MaxOps
    /\ Apply([clearTimer(Mem) EXCEPT !.stateQ = SimpleIdle(props)], "reset")
    /\ Rendered
    /\ UNCHANGED now

SimpleSkipToOutput ==
    /\ hook = "simple"
    /\ Clean
    /\ ops < MaxOps
    /\ Apply(IF state.phase # "input"
             THEN Mem
             ELSE SetInterval(Notify(
                      [clearTimer(Mem) EXCEPT !.stateQ =
                          [stateQ EXCEPT !.phase = "output",
                                         !.remainingSeconds = props.outputDuration * SecPerMin,
                                         !.totalSeconds = props.outputDuration * SecPerMin,
                                         !.isRunning = TRUE]],
                      "output")),
             "skipToOutput")
    /\ Rendered
    /\ UNCHANGED now

\* the component is mounted anew: the cleanup clears the interval intervalRef
\* holds; what the others set no longer reaches a mounted component
SimpleRemount ==
    /\ hook = "simple"
    /\ Clean
    /\ 0 < ops /\ ops < MaxOps
    /\ \E p \in PropsSet :
          /\ p.eventId = NoEvent
          /\ state' = SimpleIdle(p)
          /\ props' = p
          /\ Apply([Mem EXCEPT !.stateQ = SimpleIdle(p), !.intervalRef = FALSE,
                               !.leaked = 0, !.due = NoneDue],
                   "mount")
    /\ UNCHANGED <<now, resolvedEventId, storedState>>

SimpleSetProps ==
    /\ hook = "simple"
    /\ Clean
    /\ 0 < ops /\ ops < MaxOps
    /\ \E p \in PropsSet \ {props} : p.eventId = NoEvent /\ SimpleRender(p, "setProps")

Next ==
    \/ Advance
    \/ Render
    \/ Tick
    \/ Start
    \/ Pause
    \/ Resume
    \/ Reset
    \/ DeleteEvent
    \/ SkipToOutput
    \/ SkipToBreak
    \/ VisibilityChange
    \/ Resync
    \/ Remount
    \/ SetProps
    \/ SimpleTick
    \/ SimpleStart
    \/ SimplePause
    \/ SimpleResume
    \/ SimpleReset
    \/ SimpleSkipToOutput
    \/ SimpleRemount
    \/ SimpleSetProps

Spec == Init /\ [][Next]_vars

(* ------------- the first mount on whatever localStorage holds ---------- *)
\* Latest startTime and largest totalSeconds of a record found in storage.
MaxStoredStart == 2
MaxStoredTotal == 2

\* what the key of an event may hold when the page is opened
StoredItems ==
    {NoStored, Unparsable, JsonNull, EmptyObject}
    \cup [phase : ActivePhases, startTime : 1..MaxStoredStart,
          totalSeconds : 1..MaxStoredTotal, inputDuration : {MaxInput},
          outputDuration : OutputDurations, breakDuration : {DefaultBreak},
          eventId : EventIds]

InitLoad ==
    /\ hook = "persistent"
    /\ now \in MaxStoredStart..(MaxStoredStart + MaxStoredTotal)
    /\ ls \in [records : [EventIds -> StoredItems], active : EventIds \cup {NoEvent}]
    /\ props \in PropsSet
    /\ resolvedEventId = NoEvent
    /\ storedState = NoStored
    /\ storedStateQ = NoStored
    /\ storedDirty = FALSE
    /\ state = IdleState(props)
    /\ stateQ = state
    /\ leaked = 0
    /\ due = NoneDue
    /\ startTimeRef = 0
    /\ phaseStartTimeRef = 0
    /\ intervalRef = FALSE
    /\ last = "unmounted"
    /\ calls = <<>>
    /\ pauseState = "none"
    /\ ran = -1
    /\ ops = 0
    /\ CalIdle
    /\ FormIdle

\* the page is opened: the hook mounts with the arguments the component gives it
LoadMount ==
    /\ last = "unmounted"
    /\ DoMount(props, "mount")

NextLoad ==
    \/ LoadMount
    \/ Render
    \/ Tick
    \/ Advance

SpecLoad == InitLoad /\ [][NextLoad]_vars

(* ---- the calendar around the timer (components/calendar/event-create-modal.tsx) ---- *)
\* Page loads (the first one included) in one behaviour.
MaxLoads == 2
\* The start of the later event's window.
LateStart == 3

\* usePomodoroTimer(activePomodoro?.inputDuration ?? 25, activePomodoro?.outputDuration ?? 5, ...)
DefaultInput == 25
DefaultOutput == 5

CalEventIds == {"e1", "e2"}

\* the event lists of the calendar: an early event and a later one, in the order
\* of the list
EventLists ==
    {<<a, b>> :
        a \in {e \in [id : {"e1"}, isPomodoro : {TRUE}, startAt : {0, 1},
                      endAt : {1, 2, MaxNow}, inputDuration : {1},
                      outputDuration : OutputDurations] : e.startAt < e.endAt},
        b \in [id : {"e2"}, isPomodoro : BOOLEAN, startAt : {1, LateStart},
               endAt : {MaxNow}, inputDuration : {MaxInput},
               outputDuration : {MaxOutput}]}

\* now >= start && now <= end
InWindow(e) == now >= e.startAt /\ now <= e.endAt

RECURSIVE FindFirst(_, _)
FindFirst(evs, i) ==
    IF i > Len(evs) THEN NoActive
    ELSE IF evs[i].isPomodoro /\ InWindow(evs[i]) THEN evs[i]
    ELSE FindFirst(evs, i + 1)

\* events.find(...) || null
findActivePomodoro(evs) == FindFirst(evs, 1)

\* the arguments the component renders the hook with
HookProps(active) ==
    IF active = NoActive
    THEN [inputDuration |-> DefaultInput, outputDuration |-> DefaultOutput, eventId |-> NoEvent]
    ELSE [inputDuration |-> active.inputDuration, outputDuration |-> active.outputDuration,
          eventId |-> active.id]

\* what a callback of the component changes at once: its queued state and the log
CalMem ==
    [activePomodoroQ |-> activePomodoroQ, showBlurtingModalQ |-> showBlurtingModalQ,
     blurtingQ |-> blurtingQ, logged |-> logged]

\* what the callbacks of the component's last render closed over
CalClosure ==
    [events |-> events, activePomodoro |-> activePomodoro,
     showBlurtingModal |-> showBlurtingModal, blurting |-> blurting]

\* the timer's and the component's memory together
World == [m |-> Mem, k |-> CalMem]

handlePhaseChange(k, phase) ==
    IF phase = "output"
    THEN [k EXCEPT !.blurtingQ = startSession(k.blurtingQ), !.showBlurtingModalQ = TRUE]
    ELSE k

\* the onPhaseChange calls of the hook, in their order
RECURSIVE OnPhaseChanges(_, _, _)
OnPhaseChanges(k, phases, i) ==
    IF i > Len(phases) THEN k
    ELSE OnPhaseChanges(handlePhaseChange(k, phases[i]), phases, i + 1)

Notified(w, from) == [w EXCEPT !.k = OnPhaseChanges(w.k, w.m.calls, from + 1)]

\* hook operations called by the component: the component hears their onPhaseChange
CalStart(w, c, customIn, customOut) ==
    Notified([w EXCEPT !.m = start(w.m, c, customIn, customOut)], Len(w.m.calls))

CalReset(w, c) == [w EXCEPT !.m = reset(w.m, c)]

\* the selector that binds an event once only: what the amended C38 rules out
checkActivePomodoroOnce(w, c, kc) ==
    LET active == findActivePomodoro(kc.events)
    IN  IF active # NoActive /\ kc.activePomodoro = NoActive
        THEN IF \E i \in 1..Len(w.k.logged) : w.k.logged[i].eventId = active.id
             THEN w
             ELSE [w EXCEPT !.k.activePomodoroQ = active]
        ELSE IF active = NoActive /\ kc.activePomodoro # NoActive
                /\ c.state.phase \in {"completed", "idle"}
        THEN LET w1 == [w EXCEPT !.k.activePomodoroQ = NoActive]
                 w2 == CalReset(w1, c)
             IN  [w2 EXCEPT !.k.blurtingQ = resetSession(w2.k.blurtingQ)]
        ELSE w

checkActivePomodoro(w, c, kc) ==
    LET active == findActivePomodoro(kc.events)
    IN  IF active # NoActive /\ kc.activePomodoro = NoActive
        THEN [w EXCEPT !.k.activePomodoroQ = active]
        ELSE IF active = NoActive /\ kc.activePomodoro # NoActive
                /\ c.state.phase \in {"completed", "idle"}
        THEN LET w1 == [w EXCEPT !.k.activePomodoroQ = NoActive]
                 w2 == CalReset(w1, c)
             IN  [w2 EXCEPT !.k.blurtingQ = resetSession(w2.k.blurtingQ)]
        ELSE w

\* the start effect that never starts the timer: what C25 rules out
EffectStartNever(w, c, kc) == w

\* useEffect: start timer when activePomodoro is set and timer is not already running
EffectStart(w, c, kc) ==
    IF kc.activePomodoro # NoActive /\ c.state.phase = "idle" /\ ~c.state.isRunning
    THEN CalStart(w, c, kc.activePomodoro.inputDuration, kc.activePomodoro.outputDuration)
    ELSE w

\* the POST to /api/pomodoro-logs
handleTimerComplete(k, kc, blurtingText) ==
    IF kc.activePomodoro = NoActive THEN k
    ELSE [k EXCEPT !.logged =
             Append(@, [eventId |-> kc.activePomodoro.id, blurtingText |-> blurtingText,
                        inputMinutes |-> kc.activePomodoro.inputDuration,
                        outputMinutes |-> kc.activePomodoro.outputDuration])]

\* endSession, hide the modal, post the record, unbind, reset: the body shared by
\* the auto-complete effect and the onComplete of the BlurtingModal
CompleteBlurting(w, c, kc, text) ==
    LET k1 == [w.k EXCEPT !.blurtingQ = endSession(w.k.blurtingQ),
                          !.showBlurtingModalQ = FALSE]
        k2 == handleTimerComplete(k1, kc, text)
        k3 == [k2 EXCEPT !.activePomodoroQ = NoActive]
    IN  CalReset([w EXCEPT !.k = k3], c)

\* useEffect: auto-complete session when the phase becomes "completed"
EffectAutoComplete(w, c, kc) ==
    IF c.state.phase = "completed" /\ kc.activePomodoro # NoActive /\ kc.showBlurtingModal
    THEN CompleteBlurting(w, c, kc, kc.blurting.blurtingText)
    ELSE w

CalClean ==
    /\ Clean
    /\ activePomodoroQ = activePomodoro
    /\ showBlurtingModalQ = showBlurtingModal
    /\ blurtingQ = blurting

ApplyCal(w, op) ==
    /\ ApplyMem(w.m, op)
    /\ activePomodoroQ' = w.k.activePomodoroQ
    /\ showBlurtingModalQ' = w.k.showBlurtingModalQ
    /\ blurtingQ' = w.k.blurtingQ
    /\ logged' = w.k.logged
    /\ events' = events
    /\ UNCHANGED formVars

CalRendered == UNCHANGED <<activePomodoro, showBlurtingModal, blurting>>

CalCommit(kc) ==
    /\ activePomodoro' = kc.activePomodoro
    /\ showBlurtingModal' = kc.showBlurtingModal
    /\ blurting' = kc.blurting

InitCal ==
    /\ hook = "persistent"
    /\ now = 1
    /\ ls = [records |-> [e \in CalEventIds |-> NoStored], active |-> NoEvent]
    /\ props = HookProps(NoActive)
    /\ resolvedEventId = NoEvent
    /\ storedState = NoStored
    /\ storedStateQ = NoStored
    /\ storedDirty = FALSE
    /\ state = IdleState(props)
    /\ stateQ = state
    /\ leaked = 0
    /\ due = NoneDue
    /\ startTimeRef = 0
    /\ phaseStartTimeRef = 0
    /\ intervalRef = FALSE
    /\ last = "unmounted"
    /\ calls = <<>>
    /\ pauseState = "none"
    /\ ran = -1
    /\ ops = 0
    /\ events \in EventLists
    /\ activePomodoro = NoActive
    /\ activePomodoroQ = NoActive
    /\ showBlurtingModal = FALSE
    /\ showBlurtingModalQ = FALSE
    /\ blurting = FreshSession
    /\ blurtingQ = FreshSession
    /\ logged = <<>>
    /\ FormIdle

\* The page is opened or reloaded: the component mounts with its initial state,
\* the hook mounts on what localStorage holds, and every effect runs.
CalMount ==
    /\ last = "unmounted" \/ CalClean
    /\ ops < MaxLoads
    /\ LET r == MountMem(HookProps(NoActive))
           kc == [events |-> events, activePomodoro |-> NoActive,
                  showBlurtingModal |-> FALSE, blurting |-> FreshSession]
           w0 == Notified([m |-> r.m,
                           k |-> [activePomodoroQ |-> NoActive, showBlurtingModalQ |-> FALSE,
                                  blurtingQ |-> FreshSession, logged |-> logged]], 0)
           w1 == checkActivePomodoro(w0, r.c, kc)
           w2 == EffectStart(w1, r.c, kc)
           w3 == EffectAutoComplete(w2, r.c, kc)
       IN  /\ Commit(r.c)
           /\ CalCommit(kc)
           /\ ApplyCal(w3, "mount")
    /\ UNCHANGED now

\* React renders the component: the queued state is committed, the hook renders
\* with the arguments of the committed activePomodoro, and the effects whose
\* dependencies changed run in the order of their declaration.
CalRender ==
    /\ last # "unmounted"
    /\ ~CalClean
    /\ LET kc == [events |-> events, activePomodoro |-> activePomodoroQ,
                  showBlurtingModal |-> showBlurtingModalQ, blurting |-> blurtingQ]
           r == RenderMem(HookProps(kc.activePomodoro))
           activeChanged == kc.activePomodoro # activePomodoro
           phaseChanged == r.c.state.phase # state.phase
           runningChanged == r.c.state.isRunning # state.isRunning
           w0 == Notified([m |-> r.m, k |-> CalMem], 0)
           w1 == IF activeChanged \/ phaseChanged
                 THEN checkActivePomodoro(w0, r.c, kc) ELSE w0
           w2 == IF activeChanged \/ phaseChanged \/ runningChanged
                 THEN EffectStart(w1, r.c, kc) ELSE w1
           w3 == IF phaseChanged THEN EffectAutoComplete(w2, r.c, kc) ELSE w2
       IN  /\ Commit(r.c)
           /\ CalCommit(kc)
           /\ ApplyCal(w3, "render")
    /\ UNCHANGED now

\* the 1 Hz interval of the hook fires
CalTick ==
    /\ intervalRef
    /\ ApplyCal(Notified([World EXCEPT !.m = updateTimer(Mem, Closure)], 0), "tick")
    /\ Rendered
    /\ CalRendered
    /\ UNCHANGED now

\* the 1 Hz interval of the selector fires
Poll ==
    /\ last # "unmounted"
    /\ ApplyCal(checkActivePomodoro(World, Closure, CalClosure), "poll")
    /\ Rendered
    /\ CalRendered
    /\ UNCHANGED now

\* the BlurtingModal is on the screen
BlurtingModalShown ==
    activePomodoro # NoActive /\ showBlurtingModal /\ state.phase = "output"

\* the user types into the BlurtingModal: onTextChange={blurtingSession.updateText}
TypeText ==
    /\ CalClean
    /\ BlurtingModalShown
    /\ \E text \in Texts \ {blurting.blurtingText} :
          ApplyCal([World EXCEPT !.k.blurtingQ = updateText(blurtingQ, text)], "type")
    /\ Rendered
    /\ CalRendered
    /\ UNCHANGED now

\* the user presses Done (or Ctrl+Enter) in the BlurtingModal: handleComplete
\* returns unless canComplete, which is remainingSeconds <= 0
PressDone ==
    /\ CalClean
    /\ BlurtingModalShown
    /\ ApplyCal(IF state.remainingSeconds <= 0
                THEN CompleteBlurting(World, Closure, CalClosure, blurting.blurtingText)
                ELSE World,
                "done")
    /\ Rendered
    /\ CalRendered
    /\ UNCHANGED now

\* the delete handler that unbinds the event and leaves the timer running: what
\* C34 rules out
CalEventDeleteKeepsTimer(w, c, kc, eventId) ==
    IF kc.activePomodoro # NoActive /\ kc.activePomodoro.id = eventId
    THEN [w EXCEPT !.k.activePomodoroQ = NoActive, !.k.showBlurtingModalQ = FALSE,
                   !.k.blurtingQ = resetSession(w.k.blurtingQ)]
    ELSE w

\* handleEventDelete(eventId) once the server has deleted the event:
\* "If deleting the active pomodoro, stop the timer"
CalEventDelete(w, c, kc, eventId) ==
    IF kc.activePomodoro # NoActive /\ kc.activePomodoro.id = eventId
    THEN LET w1 == [w EXCEPT !.k.activePomodoroQ = NoActive,
                             !.k.showBlurtingModalQ = FALSE]
             w2 == CalReset(w1, c)
         IN  [w2 EXCEPT !.k.blurtingQ = resetSession(w2.k.blurtingQ)]
    ELSE w

\* the user deletes the event the component is bound to
CalDelete ==
    /\ CalClean
    /\ activePomodoro # NoActive
    /\ LET w == CalEventDelete(World, Closure, CalClosure, activePomodoro.id)
       IN  /\ ApplyMem(w.m, "delete")
           /\ activePomodoroQ' = w.k.activePomodoroQ
           /\ showBlurtingModalQ' = w.k.showBlurtingModalQ
           /\ blurtingQ' = w.k.blurtingQ
           /\ logged' = w.k.logged
    /\ events' = SelectSeq(events, LAMBDA e : e.id # activePomodoro.id)
    /\ Rendered
    /\ CalRendered
    /\ UNCHANGED <<now, formVars>>

\* the wall clock moves on by one tick
CalAdvance ==
    /\ last # "unmounted"
    /\ CalClean
    /\ now < MaxNow
    /\ now' = now + 1
    /\ ApplyCal(World, "advance")
    /\ Rendered
    /\ CalRendered

NextCal ==
    \/ CalMount
    \/ CalRender
    \/ CalTick
    \/ Poll
    \/ TypeText
    \/ PressDone
    \/ CalDelete
    \/ CalAdvance

SpecCal == InitCal /\ [][NextCal]_vars

(* ------- the recall recorder on its own (use-blurting-session.ts) ------ *)
\* everything of the timer but the clock and the label of the last step
timerVars ==
    <<hook, ls, props, resolvedEventId, storedState, storedStateQ, storedDirty, state,
      stateQ, startTimeRef, phaseStartTimeRef, intervalRef, leaked, due, calls,
      pauseState, ran, ops>>

InitRec ==
    /\ hook = "persistent"
    /\ now = 1
    /\ ls = [records |-> [e \in EventIds |-> NoStored], active |-> NoEvent]
    /\ props = HookProps(NoActive)
    /\ resolvedEventId = NoEvent
    /\ storedState = NoStored
    /\ storedStateQ = NoStored
    /\ storedDirty = FALSE
    /\ state = IdleState(props)
    /\ stateQ = state
    /\ leaked = 0
    /\ due = NoneDue
    /\ startTimeRef = 0
    /\ phaseStartTimeRef = 0
    /\ intervalRef = FALSE
    /\ last = "mount"
    /\ calls = <<>>
    /\ pauseState = "none"
    /\ ran = -1
    /\ ops = 0
    /\ CalIdle
    /\ FormIdle

\* a call of the recorder changes its queued state only
RecCall(op) ==
    /\ last' = op
    /\ UNCHANGED <<now, blurting, timerVars, events, activePomodoro, activePomodoroQ,
                   showBlurtingModal, showBlurtingModalQ, logged, formVars>>

RecStart ==
    /\ blurtingQ' = startSession(blurtingQ)
    /\ RecCall("startSession")

RecEnd ==
    /\ blurtingQ' = endSession(blurtingQ)
    /\ RecCall("endSession")

RecUpdateText ==
    /\ \E text \in Texts \ {blurtingQ.blurtingText} : blurtingQ' = updateText(blurtingQ, text)
    /\ RecCall("updateText")

RecReset ==
    /\ blurtingQ' = resetSession(blurtingQ)
    /\ RecCall("resetSession")

\* React renders the queued state of the recorder
RecRender ==
    /\ blurtingQ # blurting
    /\ blurting' = blurtingQ
    /\ last' = "render"
    /\ UNCHANGED <<now, blurtingQ, timerVars, events, activePomodoro, activePomodoroQ,
                   showBlurtingModal, showBlurtingModalQ, logged, formVars>>

\* the wall clock moves on by one tick; React has rendered what was queued
RecAdvance ==
    /\ blurtingQ = blurting
    /\ now < MaxNow
    /\ now' = now + 1
    /\ last' = "advance"
    /\ UNCHANGED <<blurting, blurtingQ, timerVars, events, activePomodoro, activePomodoroQ,
                   showBlurtingModal, showBlurtingModalQ, logged, formVars>>

NextRec ==
    \/ RecStart
    \/ RecEnd
    \/ RecUpdateText
    \/ RecReset
    \/ RecRender
    \/ RecAdvance

SpecRec == InitRec /\ [][NextRec]_vars

(* --------- the event form around the allocator (src/unnamed/part_003) -- *)
\* Longest event, in minutes, given to the form.
MaxMinutes == 45

\* differenceInMinutes(end, start) of the dates given to the form
EventMinutes == 0..MaxMinutes

\* the plan of a 25..29 minute event with a recall phase: what C31 rules out
FocusOnlyPlanWithRecall ==
    [inputDuration |-> 20, outputDuration |-> 5, longBreakDuration |-> 0, sets |-> 1,
     isStandardCycle |-> FALSE]

\* "Exactly 25 minutes: Without blurting (25-0)"
FocusOnlyPlan ==
    [inputDuration |-> 25, outputDuration |-> 0, longBreakDuration |-> 0, sets |-> 1,
     isStandardCycle |-> FALSE]

\* the standard cycles counted as one: what C32 rules out
StandardCyclePlanOneSet(eventDurationMinutes) ==
    [inputDuration |-> WITH_BLURTING_FOCUS, outputDuration |-> WITH_BLURTING_OUTPUT,
     longBreakDuration |-> LongBreak, sets |-> 1, isStandardCycle |-> TRUE]

\* "If divisible by 30, use perfect cycles"
StandardCyclePlan(eventDurationMinutes) ==
    [inputDuration |-> WITH_BLURTING_FOCUS, outputDuration |-> WITH_BLURTING_OUTPUT,
     longBreakDuration |-> LongBreak,
     sets |-> eventDurationMinutes \div STANDARD_CYCLE_DURATION,
     isStandardCycle |-> TRUE]

\* the earlier allocator's plan of an odd duration: what C33 rules out
CustomCyclePlanStretched(eventDurationMinutes) ==
    [inputDuration |-> Max(5, eventDurationMinutes - 5 - 5),
     outputDuration |-> WITH_BLURTING_OUTPUT,
     longBreakDuration |-> LongBreak, sets |-> 1, isStandardCycle |-> FALSE]

\* "just default to With Blurting settings for safety"
CustomCyclePlan(eventDurationMinutes) ==
    [inputDuration |-> WITH_BLURTING_FOCUS, outputDuration |-> WITH_BLURTING_OUTPUT,
     longBreakDuration |-> LongBreak, sets |-> 1, isStandardCycle |-> FALSE]

\* the allocator that gives a too short event the shortest plan: what C30 rules out
calculateClamped(eventDurationMinutes) ==
    IF eventDurationMinutes < MIN_POMODORO_WITH_BREAK_DURATION
    THEN FocusOnlyPlan
    ELSE IF eventDurationMinutes % STANDARD_CYCLE_DURATION = 0
    THEN StandardCyclePlan(eventDurationMinutes)
    ELSE CustomCyclePlan(eventDurationMinutes)

calculateDefaultPomodoroSettings(eventDurationMinutes) ==
    IF eventDurationMinutes < MIN_POMODORO_DURATION
    THEN NoPlan
    ELSE IF eventDurationMinutes >= MIN_POMODORO_DURATION
            /\ eventDurationMinutes < MIN_POMODORO_WITH_BREAK_DURATION
    THEN FocusOnlyPlan
    ELSE IF eventDurationMinutes % STANDARD_CYCLE_DURATION = 0
    THEN StandardCyclePlan(eventDurationMinutes)
    ELSE CustomCyclePlan(eventDurationMinutes)

\* useMemo: the event duration in minutes
eventDurationMinutes(form) ==
    IF form.minutes = NoDates THEN DefaultEventDuration
    ELSE Max(MinEventDuration, form.minutes)

isStandardCycle(form) ==
    \/ form.inputDuration = WITH_BLURTING_FOCUS /\ form.outputDuration = WITH_BLURTING_OUTPUT
    \/ form.inputDuration = WITHOUT_BLURTING_FOCUS
       /\ form.outputDuration = WITHOUT_BLURTING_OUTPUT

totalPomodoroTime(form) ==
    IF isStandardCycle(form) THEN form.sets * STANDARD_CYCLE_DURATION
    ELSE form.inputDuration + form.outputDuration

isPomodoroTimeValid(form) ==
    /\ totalPomodoroTime(form) <= eventDurationMinutes(form)
    /\ eventDurationMinutes(form) >= MIN_POMODORO_DURATION

\* useEffect "update form when initial dates change": pomodoroSettings?.x ?? default
FormFromDates(form, minutes) ==
    LET pomodoroSettings == calculateDefaultPomodoroSettings(minutes)
    IN  IF pomodoroSettings = NoPlan
        THEN [form EXCEPT !.minutes = minutes, !.inputDuration = 20, !.outputDuration = 5,
                          !.longBreakDuration = 0, !.sets = 1]
        ELSE [form EXCEPT !.minutes = minutes,
                          !.inputDuration = pomodoroSettings.inputDuration,
                          !.outputDuration = pomodoroSettings.outputDuration,
                          !.longBreakDuration = pomodoroSettings.longBreakDuration,
                          !.sets = pomodoroSettings.sets]

\* useEffect "auto-adjust pomodoro times when event duration changes", run when
\* the event duration or the event type differs from the last render's
AutoAdjust(form, type) ==
    IF /\ eventDurationMinutes(form) # eventDurationMinutes(formState) \/ type # eventType
       /\ type = "pomodoro"
       /\ eventDurationMinutes(form) >= MIN_POMODORO_DURATION
       /\ calculateDefaultPomodoroSettings(eventDurationMinutes(form)) # NoPlan
    THEN LET settings == calculateDefaultPomodoroSettings(eventDurationMinutes(form))
         IN  [form EXCEPT !.inputDuration = settings.inputDuration,
                          !.outputDuration = settings.outputDuration]
    ELSE form

InitForm ==
    /\ hook = "persistent"
    /\ now = 1
    /\ ls = [records |-> [e \in EventIds |-> NoStored], active |-> NoEvent]
    /\ props = HookProps(NoActive)
    /\ resolvedEventId = NoEvent
    /\ storedState = NoStored
    /\ storedStateQ = NoStored
    /\ storedDirty = FALSE
    /\ state = IdleState(props)
    /\ stateQ = state
    /\ leaked = 0
    /\ due = NoneDue
    /\ startTimeRef = 0
    /\ phaseStartTimeRef = 0
    /\ intervalRef = FALSE
    /\ last = "mount"
    /\ calls = <<>>
    /\ pauseState = "none"
    /\ ran = -1
    /\ ops = 0
    /\ CalIdle
    /\ FormIdle

\* a step of the form leaves the timer and the calendar as they are
FormStep(op) ==
    /\ last' = op
    /\ UNCHANGED <<now, timerVars, calVars>>

\* the modal is opened on a slot of the calendar: initialDate and initialEndDate
\* arrive, the first effect fills the form from the allocator's plan, and the
\* auto-adjust effect follows the new event duration
OpenWithDates ==
    /\ \E minutes \in EventMinutes :
          /\ totalMinutes' = minutes
          /\ plan' = calculateDefaultPomodoroSettings(minutes)
          /\ formState' = AutoAdjust(FormFromDates(formState, minutes), eventType)
    /\ FormStep("dates")
    /\ UNCHANGED <<eventType, saved>>

\* the modal is opened with a start only: the event is one hour long
OpenWithStart ==
    /\ totalMinutes' = 60
    /\ plan' = calculateDefaultPomodoroSettings(60)
    /\ formState' = AutoAdjust(FormFromDates(formState, 60), eventType)
    /\ FormStep("start")
    /\ UNCHANGED <<eventType, saved>>

\* handleEventTypeChange; the Pomodoro button acts only on an event of at least
\* MIN_POMODORO_DURATION minutes
ChangeEventType ==
    /\ \E type \in {"pomodoro", "normal"} \ {eventType} :
          /\ type = "pomodoro" => eventDurationMinutes(formState) >= MIN_POMODORO_DURATION
          /\ eventType' = type
          /\ formState' = AutoAdjust([formState EXCEPT !.isPomodoro = (type = "pomodoro")], type)
    /\ FormStep("type")
    /\ UNCHANGED <<totalMinutes, plan, saved>>

\* handleBlurtingModeChange
ChangeBlurtingMode ==
    /\ \E mode \in {"with_blurting", "without_blurting"} :
          formState' =
             IF mode = "with_blurting"
             THEN [formState EXCEPT !.inputDuration = WITH_BLURTING_FOCUS,
                                    !.outputDuration = WITH_BLURTING_OUTPUT]
             ELSE [formState EXCEPT !.inputDuration = WITHOUT_BLURTING_FOCUS,
                                    !.outputDuration = WITHOUT_BLURTING_OUTPUT]
    /\ FormStep("mode")
    /\ UNCHANGED <<eventType, totalMinutes, plan, saved>>

\* handleSubmit of a form with a title and dates
Submit ==
    /\ formState.minutes # NoDates
    /\ saved' = IF eventType = "pomodoro" /\ ~isPomodoroTimeValid(formState)
                THEN saved ELSE formState
    /\ FormStep("submit")
    /\ UNCHANGED <<eventType, formState, totalMinutes, plan>>

\* the modal closes: the form is reset
CloseForm ==
    /\ formState' = EmptyForm
    /\ eventType' = "pomodoro"
    /\ FormStep("close")
    /\ UNCHANGED <<totalMinutes, plan, saved>>

NextForm ==
    \/ OpenWithDates
    \/ OpenWithStart
    \/ ChangeEventType
    \/ ChangeBlurtingMode
    \/ Submit
    \/ CloseForm

SpecForm == InitForm /\ [][NextForm]_vars

(* ------------- one session under fair delivery of ticks --------------- *)
\* The persistent hook with one start() and no other operation: the 1 Hz
\* interval delivers the tick of every second before the next second begins,
\* and React renders what is queued.
InitLive == Init /\ hook = "persistent"

LiveStart ==
    /\ ops = 0
    /\ Start

LiveRender ==
    /\ ops > 0
    /\ Render

LiveTick ==
    /\ ops > 0
    /\ Tick

\* the next second begins once the tick of this one, if an interval is
\* installed, has been evaluated
LiveAdvance ==
    /\ intervalRef => last # "advance"
    /\ Advance

NextLive ==
    \/ LiveStart
    \/ LiveRender
    \/ LiveTick
    \/ LiveAdvance

SpecLive ==
    /\ InitLive
    /\ [][NextLive]_vars
    /\ WF_vars(LiveRender)
    /\ WF_vars(LiveTick)
    /\ WF_vars(LiveAdvance)

(* ------------------------------ properties ---------------------------- *)
PhaseRank(ph) ==
    CASE ph = "input" -> 1
      [] ph = "output" -> 2
      [] ph = "break" -> 3
      [] ph = "completed" -> 4
      [] OTHER -> 0

\* the steps of one session: everything but start, reset, a reload and new arguments
SessionSteps ==
    {"advance", "render", "tick", "visible", "hidden", "resync",
     "pause", "resume", "skipToOutput", "skipToBreak"}

\* the last render's timer is bound to an event: its writes reach localStorage
Bound == TargetEventId(Closure) # NoEvent

\* whole seconds since the current phase began, by the wall clock
PhaseElapsed == ElapsedSeconds(phaseStartTimeRef)

\* C1: over the steps of one session (no start, no reset) the phase only moves
\* forward along input -> {output | break} -> break -> completed: it never goes
\* back to an earlier phase, and no step re-enters the phase the timer is in.
C1_PhasesOnlyMoveForward ==
    [][(last' \in SessionSteps /\ PhaseRank(stateQ.phase) > 0) =>
          /\ PhaseRank(stateQ'.phase) >= PhaseRank(stateQ.phase)
          /\ \A i \in DOMAIN calls' : PhaseRank(calls'[i]) > PhaseRank(stateQ.phase)]_vars

\* C2: an evaluation of the transition logic (tick, visibility regain, resync) of
\* a running phase makes exactly one transition with exactly one callback when
\* the phase's budget has elapsed, and none when it has not, which is the case
\* of a second evaluation right after the transition.
C2_OneTransitionPerCrossing ==
    [][(/\ last' \in {"tick", "visible", "resync"}
        /\ stateQ.phase \in ActivePhases
        /\ stateQ.isRunning
        /\ phaseStartTimeRef # 0) =>
          IF PhaseElapsed >= stateQ.totalSeconds
          THEN Len(calls') = 1 /\ PhaseRank(stateQ'.phase) > PhaseRank(stateQ.phase)
          ELSE calls' = <<>> /\ stateQ'.phase = stateQ.phase]_vars

\* C3: after a timed or forced transition of an event-bound session the persisted
\* record holds the instant the new phase began as its startTime and the new
\* phase's budget as its totalSeconds.
C3_RecordHoldsPhaseStart ==
    [][(/\ last' \in SessionSteps
        /\ calls' # <<>>
        /\ calls'[Len(calls')] \in {"output", "break"}
        /\ ls'.active # NoEvent) =>
          /\ ls'.records[ls'.active].phase = stateQ'.phase
          /\ ls'.records[ls'.active].startTime = now
          /\ ls'.records[ls'.active].totalSeconds = stateQ'.totalSeconds]_vars

\* what a tick of the live instance computes at this instant
LiveRemaining == storedState.totalSeconds - PhaseElapsed

\* C4: a fresh instance mounted on the storage of an event-bound session that is
\* running in input, output or break shows the phase and the remainingSeconds of
\* the live instance.
C4_FreshMountAgreesWithLive ==
    [][(/\ last' = "mount"
        /\ Bound /\ Has(storedState)
        /\ state.isRunning
        /\ state.phase \in ActivePhases
        /\ LiveRemaining > 0
        /\ state.remainingSeconds = LiveRemaining) =>
          /\ stateQ'.phase = state.phase
          /\ stateQ'.remainingSeconds = state.remainingSeconds]_vars

\* the record a mount with the arguments of the next state finds in storage
FoundRecord ==
    LET id == ResolveEventId(props', ls)
    IN  IF id = NoEvent THEN NoStored ELSE ls.records[id]

\* C5: a mount that finds a record whose phase has fully elapsed does not bring
\* that phase back and does not fall back to idle: the timer ends in a later
\* phase or in completed.
C5_ExpiredRecordCatchesUp ==
    [][(/\ last' = "mount"
        /\ Has(FoundRecord)
        /\ ElapsedSeconds(FoundRecord.startTime) >= FoundRecord.totalSeconds) =>
          PhaseRank(stateQ'.phase) > PhaseRank(FoundRecord.phase)]_vars

\* C6: a tick or resync evaluated before the budget of the current phase has
\* elapsed makes no transition and sets remainingSeconds to the budget minus
\* the seconds elapsed on the wall clock since the phase began.
C6_TickComputesFromWallClock ==
    [][(/\ last' \in {"tick", "resync"}
        /\ stateQ.phase \in ActivePhases
        /\ phaseStartTimeRef # 0
        /\ PhaseElapsed < stateQ.totalSeconds) =>
          /\ calls' = <<>>
          /\ stateQ'.phase = stateQ.phase
          /\ stateQ'.remainingSeconds = stateQ.totalSeconds - PhaseElapsed]_vars

\* the tick that was due has been evaluated, or no interval is there to deliver one
TickSettled == last = "tick" \/ (last = "advance" /\ ~intervalRef)

\* C7: after start, a seconds running, pause, any time paused, resume and b more
\* seconds running (ran = a + b, below the budget), the timer shows
\* remainingSeconds = totalSeconds - (a + b): the paused time is not counted.
C7_PauseResumeKeepsRemaining ==
    (/\ pauseState = "resumed"
     /\ ran >= 0
     /\ ran % TicksPerSec = 0
     /\ ran \div TicksPerSec < stateQ.totalSeconds
     /\ TickSettled) =>
        stateQ.remainingSeconds = stateQ.totalSeconds - ran \div TicksPerSec

\* C8: from pause() to the next operation no step (clock, tick, visibility
\* change, resync, render) changes remainingSeconds or sets isRunning.
C8_PausedTimerStandsStill ==
    [][(pauseState = "paused" /\ pauseState' = "paused") =>
          /\ stateQ'.isRunning = FALSE
          /\ stateQ'.remainingSeconds = stateQ.remainingSeconds]_vars

\* C9: start() called while a session is running changes neither the phase, the
\* phase start, remainingSeconds nor the persisted record, and notifies nobody.
C9_StartWhileRunningIsNoOp ==
    [][(last' = "start" /\ state.isRunning /\ state.phase \in ActivePhases) =>
          /\ stateQ' = stateQ
          /\ phaseStartTimeRef' = phaseStartTimeRef
          /\ ls' = ls
          /\ calls' = <<>>]_vars

\* C10: resume() called while the phase is idle or completed changes nothing:
\* isRunning stays false, no interval is installed, nothing is written to
\* localStorage or to the stored state, and the refs keep their values.
C10_ResumeFromIdleOrCompletedIsNoOp ==
    [][(last' = "resume" /\ state.phase \in {"idle", "completed"}) =>
          /\ stateQ' = stateQ
          /\ stateQ'.isRunning = FALSE
          /\ intervalRef' = intervalRef
          /\ ls' = ls
          /\ storedStateQ' = storedStateQ
          /\ storedDirty' = storedDirty
          /\ startTimeRef' = startTimeRef
          /\ leaked' = leaked
          /\ due' = due
          /\ phaseStartTimeRef' = phaseStartTimeRef]_vars

\* resume() was called on a completed session, and on an idle timer
C10_ResumeCalledWhenCompleted ==
    last = "resume" /\ state.phase = "completed" /\ ~state.isRunning

\* the record localStorage holds for the event the last render's timer is bound to
BoundRecord == IF Bound THEN ls.records[TargetEventId(Closure)] ELSE NoStored

\* C11: right after reset(), whatever the state it was called in, the phase is
\* idle, isRunning is false, remainingSeconds and totalSeconds are the configured
\* focus minutes in seconds, and for a timer bound to an event the record of
\* that event and the active-event pointer are gone from localStorage.
C11_ResetReturnsToIdle ==
    last = "reset" =>
        /\ stateQ.phase = "idle"
        /\ stateQ.isRunning = FALSE
        /\ stateQ.remainingSeconds = props.inputDuration * SecPerMin
        /\ stateQ.totalSeconds = props.inputDuration * SecPerMin
        /\ Bound => ~Has(BoundRecord) /\ ls.active = NoEvent /\ ~Has(storedStateQ)

\* reset() was called on an event-bound session that was running
C11_ResetCalledInSession ==
    /\ last = "reset"
    /\ Bound
    /\ Has(storedState)
    /\ state.phase \in ActivePhases
    /\ state.isRunning
    /\ state.remainingSeconds < state.totalSeconds

\* C12: skipToOutput() called in idle, output, break or completed changes
\* nothing; called in input (with a recall duration above 0) it enters output
\* with remainingSeconds = totalSeconds = the session's recall minutes in
\* seconds, running, with the record of a bound event written, and calls
\* onPhaseChange('output') once.
C12_SkipToOutputOnlyFromFocus ==
    [][last' = "skipToOutput" =>
          IF state.phase = "input"
          THEN state.outputDuration > 0 =>
                 /\ stateQ'.phase = "output"
                 /\ stateQ'.remainingSeconds = state.outputDuration * SecPerMin
                 /\ stateQ'.totalSeconds = state.outputDuration * SecPerMin
                 /\ stateQ'.isRunning
                 /\ calls' = <<"output">>
                 /\ Bound => /\ BoundRecord'.phase = "output"
                             /\ BoundRecord'.totalSeconds = stateQ'.totalSeconds
                             /\ ls'.active = TargetEventId(Closure)
          ELSE /\ stateQ' = stateQ
               /\ ls' = ls
               /\ storedStateQ' = storedStateQ
               /\ phaseStartTimeRef' = phaseStartTimeRef
               /\ startTimeRef' = startTimeRef
               /\ intervalRef' = intervalRef
               /\ calls' = <<>>]_vars

\* C13: skipToBreak() called in idle, break or completed changes neither the
\* phase, the running flag nor the persisted record, and calls no callback.
C13_SkipToBreakOnlyBeforeBreak ==
    [][(last' = "skipToBreak" /\ state.phase \in {"idle", "break", "completed"}) =>
          /\ stateQ'.phase = stateQ.phase
          /\ stateQ'.isRunning = stateQ.isRunning
          /\ ls' = ls
          /\ calls' = <<>>]_vars

\* C14: in a session of the persistent hook whose recall duration is 0 a step
\* that ends input (a tick past the budget, a visibility regain, a resync,
\* skipToOutput) goes to break: output is not entered and onPhaseChange('output')
\* is not called.
C14_NoRecallWhenRecallIsZero ==
    [][(/\ last' \in SessionSteps
        /\ hook = "persistent"
        /\ stateQ.phase = "input"
        /\ stateQ.outputDuration = 0) =>
          /\ stateQ'.phase \in {"input", "break"}
          /\ \A i \in DOMAIN calls' : calls'[i] # "output"]_vars

\* the tick evaluated at the very second the budget of the running phase ends
TickOnTheBoundary ==
    /\ last' = "tick"
    /\ Clean
    /\ stateQ.isRunning
    /\ stateQ.outputDuration > 0
    /\ IF hook = "persistent"
       THEN /\ phaseStartTimeRef # 0
            /\ now - phaseStartTimeRef = stateQ.totalSeconds * TicksPerSec
       ELSE stateQ.remainingSeconds = 1

\* C15: in a session with recall r > 0 the tick evaluated exactly when the focus
\* budget has elapsed puts the timer in output with remainingSeconds = r minutes
\* in seconds, and (persistent hook) the tick evaluated exactly when the recall
\* budget has elapsed puts it in break; each makes one callback, for the phase
\* that follows.
C15_TimedTransitionSequence ==
    [][TickOnTheBoundary =>
          /\ stateQ.phase = "input" =>
                /\ stateQ'.phase = "output"
                /\ stateQ'.remainingSeconds = stateQ.outputDuration * SecPerMin
                /\ calls' = <<"output">>
          /\ (stateQ.phase = "output" /\ hook = "persistent") =>
                /\ stateQ'.phase = "break"
                /\ calls' = <<"break">>]_vars

\* C16: in the plain hook the tick that takes the countdown of output to zero
\* sets phase = completed, isRunning = false and remainingSeconds = 0, clears
\* the interval intervalRef holds and calls onPhaseChange('completed') once.
C16_OutputEndsInCompleted ==
    [][(/\ hook = "simple"
        /\ last' = "tick"
        /\ stateQ.phase = "output"
        /\ stateQ.isRunning
        /\ stateQ.remainingSeconds <= 1) =>
          /\ stateQ'.phase = "completed"
          /\ stateQ'.isRunning = FALSE
          /\ stateQ'.remainingSeconds = 0
          /\ intervalRef' = FALSE
          /\ due'.ref = FALSE
          /\ calls' = <<"completed">>]_vars

\* the plain hook counted output down to zero while its interval was installed
C16_OutputCountedDown ==
    /\ hook = "simple"
    /\ last = "tick"
    /\ stateQ.phase = "completed"
    /\ state.phase = "output"
    /\ state.totalSeconds > 0
    /\ calls = <<"completed">>

\* C17: start(focus, recall) called in idle or completed sets phase = input,
\* isRunning = true, totalSeconds = remainingSeconds = focus minutes in seconds
\* and the session's durations, sets the phase start to now, writes the record
\* of the bound event and the active-event pointer in the same step, and calls
\* onPhaseChange('input') exactly once.
C17_StartEntersFocus ==
    [][(last' = "start" /\ state.phase \in {"idle", "completed"}) =>
          /\ stateQ'.phase = "input"
          /\ stateQ'.isRunning
          /\ stateQ'.inputDuration \in InputDurations
          /\ stateQ'.totalSeconds = stateQ'.inputDuration * SecPerMin
          /\ stateQ'.remainingSeconds = stateQ'.totalSeconds
          /\ calls' = <<"input">>
          /\ hook = "persistent" => phaseStartTimeRef' = now /\ startTimeRef' = now
          /\ Bound =>
                /\ BoundRecord'.phase = "input"
                /\ BoundRecord'.startTime = now
                /\ BoundRecord'.totalSeconds = stateQ'.totalSeconds
                /\ BoundRecord'.inputDuration = stateQ'.inputDuration
                /\ BoundRecord'.outputDuration = stateQ'.outputDuration
                /\ ls'.active = TargetEventId(Closure)
                /\ storedStateQ' = BoundRecord']_vars

\* start() was called on the completed session of a bound event, with a focus
\* duration of its own
C17_StartedAfterCompleted ==
    /\ last = "start"
    /\ Bound
    /\ state.phase = "completed"
    /\ stateQ.inputDuration # props.inputDuration
    /\ Has(BoundRecord)

\* C18: in every state remainingSeconds, rendered or queued, is a whole number
\* of seconds that is not negative.
C18_RemainingNeverNegative ==
    /\ stateQ.remainingSeconds \in Nat
    /\ state.remainingSeconds \in Nat

\* a tick of a suspended page was evaluated after more than the focus budget
\* had elapsed
C18_LateTickEvaluated ==
    /\ hook = "persistent"
    /\ last = "tick"
    /\ calls # <<>>
    /\ storedState.phase = "input"
    /\ ElapsedSeconds(storedState.startTime) > storedState.totalSeconds

\* the focus and recall minutes of a state or of a persisted record
Durations(s) == <<s.inputDuration, s.outputDuration>>

\* C19: while a session is in input, output or break no step (tick, visibility
\* change, resync, pause, resume, skip, render, a render with other configured
\* durations) changes the session's focus and recall minutes in memory or in a
\* persisted record, and the output phase entered from input lasts the
\* session's recall minutes.
C19_DurationsSnapshottedAtStart ==
    [][(/\ last' \in SessionSteps \cup {"setProps"}
        /\ stateQ.phase \in ActivePhases) =>
          /\ Durations(stateQ') = Durations(stateQ)
          /\ \A e \in EventIds :
                (Has(ls.records[e]) /\ Has(ls'.records[e])) =>
                    Durations(ls'.records[e]) = Durations(ls.records[e])
          /\ (stateQ.phase = "input" /\ stateQ'.phase = "output") =>
                stateQ'.totalSeconds = stateQ.outputDuration * SecPerMin]_vars

\* the record of the bound event and the active-event pointer are there in
\* input, output and break, and gone in idle and completed
RecordMatchesPhase ==
    IF stateQ.phase \in ActivePhases
    THEN Has(BoundRecord) /\ ls.active = TargetEventId(Closure)
    ELSE ~Has(BoundRecord) /\ ls.active = NoEvent

\* C20: for a timer bound to an event the record of that event and the
\* active-event pointer are in localStorage exactly while the phase is input,
\* output or break: this holds when the hook is first mounted, every mount
\* establishes it and every step of a bound timer (start, transitions, reaching
\* completed, reset) keeps it; and once the bound event has been deleted
\* neither the record nor the pointer remains.
C20_RecordExistsWhileActive ==
    /\ Bound => RecordMatchesPhase
    /\ [][/\ (Bound' /\ (last' = "mount" \/ (Bound /\ RecordMatchesPhase))) =>
                RecordMatchesPhase'
          /\ last' = "delete" =>
                /\ ~Has(ls'.records[TargetEventId(Closure)])
                /\ ls'.active = NoEvent]_vars

\* what the mount of the next state finds under the key of its event is absent
\* (no event id and no pointer, or no item), is not JSON, or has no usable field
MissingOrMalformed ==
    \/ ~Has(FoundRecord)
    \/ FoundRecord \in {Unparsable, JsonNull, EmptyObject}

\* C21: a mount that finds no persisted record, an item that is not parsable
\* JSON or a record without usable fields completes (the exception is caught)
\* and leaves the timer idle, not running, with remainingSeconds = the
\* configured focus minutes in seconds and no stored state.
C21_MalformedStorageMountsIdle ==
    [][(last' = "mount" /\ MissingOrMalformed) =>
          /\ stateQ' = IdleState(props')
          /\ state' = IdleState(props')
          /\ stateQ'.remainingSeconds = props'.inputDuration * SecPerMin
          /\ ~Has(storedStateQ')
          /\ intervalRef' = FALSE
          /\ calls' = <<>>]_vars

\* the hook was mounted for an event whose key holds a text that is not JSON
C21_MountedOnUnparsable ==
    /\ last = "mount"
    /\ resolvedEventId # NoEvent
    /\ ls.records[resolvedEventId] = Unparsable
    /\ state.phase = "idle"

(* ------------------- properties of the calendar component ------------- *)
\* the event of the session that is in flight, if any
SessionEvent ==
    IF Has(storedStateQ) /\ storedStateQ.phase \in ActivePhases THEN storedStateQ.eventId
    ELSE NoEvent

\* the events whose persisted record is in Focus, Recall or Break
InFlightRecords == {e \in CalEventIds : ls.records[e].phase \in ActivePhases}

\* C22: whatever the event list, the selector has bound at most one event, and a
\* session in flight is the session of the bound event: no event is bound while
\* the session of another event is in Focus, Recall or Break, and at most one
\* persisted record is in flight.
C22_OneBoundSession ==
    /\ activePomodoroQ # NoActive /\ SessionEvent # NoEvent
          => SessionEvent = activePomodoroQ.id
    /\ Cardinality(InFlightRecords) <= 1

\* the window of e as the half-open interval [startAt, endAt)
InHalfOpenWindow(e) == e.startAt <= now /\ now < e.endAt

\* the step queues the binding of an event
Binds == activePomodoroQ' # NoActive /\ activePomodoroQ' # activePomodoroQ

\* C23: the selector finds an event exactly when a timed-session event has
\* startAt <= now < endAt, the event it finds is such an event, and so is every
\* event it binds: at now = endAt an event is neither selected nor bound.
C23_WindowIsHalfOpen ==
    /\ [](LET active == findActivePomodoro(events)
          IN  /\ last # "unmounted" /\ active # NoActive
                    => active.isPomodoro /\ InHalfOpenWindow(active)
              /\ (\E i \in 1..Len(events) : events[i].isPomodoro /\ InHalfOpenWindow(events[i]))
                    => active # NoActive)
    /\ [][Binds => /\ activePomodoroQ'.isPomodoro
                   /\ activePomodoroQ'.startAt <= now'
                   /\ now' < activePomodoroQ'.endAt]_vars

\* the window of the bound event has closed while its timer is in Focus, Recall
\* or Break
Grace ==
    /\ activePomodoroQ # NoActive
    /\ ~InWindow(activePomodoroQ)
    /\ stateQ.phase \in ActivePhases

\* the step unbinds the event without completing its session through the sink:
\* the selector's unbind
SelectorUnbinds ==
    /\ activePomodoroQ # NoActive
    /\ activePomodoroQ' = NoActive
    /\ logged' = logged

\* C24: once the bound event's window has closed with the timer in Focus, Recall
\* or Break, every step leaves the event bound and the timer running its
\* session (it is not reset to idle, not stopped, its record stays persisted)
\* until the timer is Completed; and the selector unbinds an event only when
\* the event no longer qualifies and the timer is Completed or Idle.
C24_GracePeriod ==
    [][/\ Grace =>
            /\ activePomodoroQ' = activePomodoroQ
            /\ stateQ'.phase \in ActivePhases \cup {"completed"}
            /\ stateQ'.phase \in ActivePhases => stateQ'.isRunning /\ Has(storedStateQ')
       /\ SelectorUnbinds =>
            /\ ~(activePomodoroQ.startAt <= now' /\ now' <= activePomodoroQ.endAt)
            /\ stateQ.phase \in {"completed", "idle"}]_vars

\* the timed-session events whose window [startAt, endAt) contains now
Qualifying == {i \in 1..Len(events) : events[i].isPomodoro /\ InHalfOpenWindow(events[i])}

\* nothing is bound and the timer is idle, as the last render saw it and as queued
UnboundAndIdle ==
    /\ activePomodoro = NoActive
    /\ activePomodoroQ = NoActive
    /\ state.phase = "idle"
    /\ stateQ.phase = "idle"
    /\ ~stateQ.isRunning

\* C25: with a qualifying event in the list, no event bound and the timer idle,
\* a poll of the selector binds the first qualifying event; and the render that
\* commits a binding made with the timer idle starts the timer: phase input,
\* running, with the focus and recall minutes of the bound event, a full focus
\* phase remaining, and the session persisted under the event's key.
C25_ActivationStartsFocus ==
    [][/\ (last' = "poll" /\ UnboundAndIdle /\ Qualifying # {}) =>
            /\ activePomodoroQ' = findActivePomodoro(events)
            /\ \E i \in Qualifying : activePomodoroQ' = events[i]
       /\ (last' = "render" /\ activePomodoro = NoActive /\ activePomodoroQ # NoActive
           /\ stateQ.phase = "idle") =>
            /\ activePomodoro' = activePomodoroQ
            /\ activePomodoroQ' = activePomodoroQ
            /\ stateQ'.phase = "input"
            /\ stateQ'.isRunning
            /\ stateQ'.inputDuration = activePomodoroQ.inputDuration
            /\ stateQ'.outputDuration = activePomodoroQ.outputDuration
            /\ stateQ'.remainingSeconds = activePomodoroQ.inputDuration * SecPerMin
            /\ ls'.records[activePomodoroQ.id].phase = "input"
            /\ ls'.active = activePomodoroQ.id
            /\ calls' = <<"input">>]_vars

\* the later event was bound by a poll and the render has started its session
C25_LaterEventActivated ==
    /\ last = "render"
    /\ activePomodoro.id = "e2"
    /\ now >= LateStart
    /\ state.phase = "idle"
    /\ stateQ.phase = "input"
    /\ stateQ.isRunning
    /\ stateQ.inputDuration = MaxInput

\* the render commits the phase completed: the session has reached Completed
ReachesCompleted == state'.phase = "completed" /\ state.phase # "completed"

\* the user completes the session in the BlurtingModal during Recall
ForcedInRecall == last' = "done" /\ state.phase = "output" /\ state.remainingSeconds <= 0

\* C26: the step in which a session reaches Completed posts exactly one
\* completion record, for the event of the session, whatever path the session
\* took; and a completion record is posted only by such a step or by the
\* user's forced completion during Recall.
C26_SinkOncePerCompletedSession ==
    [][/\ ReachesCompleted =>
            /\ Len(logged') = Len(logged) + 1
            /\ logged'[Len(logged')].eventId = activePomodoroQ.id
            /\ activePomodoroQ # NoActive
       /\ logged' # logged =>
            /\ Len(logged') = Len(logged) + 1
            /\ SubSeq(logged', 1, Len(logged)) = logged
            /\ ReachesCompleted \/ ForcedInRecall]_vars

\* the step takes the timer into Recall
EntersRecall == stateQ'.phase = "output" /\ stateQ.phase # "output" /\ calls' # <<>>

\* the step takes the timer out of Recall
LeavesRecall == stateQ.phase = "output" /\ stateQ'.phase # "output" /\ last' # "mount"

\* C27: the step that takes the timer into Recall starts the recorder (active,
\* empty text, startedAt = now, endedAt null); the step that takes it out of
\* Recall, by timeout into Break or by forced completion, finalizes the
\* recorder (not active, endedAt = now); and the recorder is never active
\* while the timer is in Break, Completed or Idle.
C27_RecorderFollowsRecall ==
    /\ [](stateQ.phase \in {"break", "completed", "idle"} => ~blurtingQ.isActive)
    /\ [][/\ EntersRecall =>
               blurtingQ' = [isActive |-> TRUE, blurtingText |-> "", startedAt |-> now',
                             endedAt |-> 0]
          /\ LeavesRecall => ~blurtingQ'.isActive /\ blurtingQ'.endedAt = now']_vars

(* --------------------- properties of the recall recorder --------------- *)
\* C28: startSession(), whatever the recorder held (a fresh state, an active
\* session with text, an ended session), leaves isActive = true, an empty text,
\* startedAt = now and endedAt = null; endSession() leaves isActive = false and
\* endedAt = now and keeps the text (and startedAt); the next render shows
\* exactly that state.
C28_StartAndEndSession ==
    [][/\ last' = "startSession" =>
            /\ blurtingQ'.isActive
            /\ blurtingQ'.blurtingText = ""
            /\ blurtingQ'.startedAt = now'
            /\ blurtingQ'.endedAt = 0
       /\ last' = "endSession" =>
            /\ ~blurtingQ'.isActive
            /\ blurtingQ'.endedAt = now'
            /\ blurtingQ'.blurtingText = blurtingQ.blurtingText
            /\ blurtingQ'.startedAt = blurtingQ.startedAt
       /\ last' = "render" => blurting' = blurtingQ /\ blurtingQ' = blurtingQ]_vars

\* startSession() was called on an ended session that held a text
C28_RestartedAfterEnd ==
    /\ last = "startSession"
    /\ blurting.startedAt # 0
    /\ blurting.endedAt # 0
    /\ ~blurting.isActive
    /\ blurting.blurtingText = "a"
    /\ blurtingQ.startedAt = now
    /\ blurtingQ.startedAt > blurting.endedAt

\* the session the last render shows: never started, open, or ended
NeverStarted == blurting.startedAt = 0
SessionOpen == blurting.startedAt # 0 /\ blurting.endedAt = 0
SessionEnded == blurting.startedAt # 0 /\ blurting.endedAt # 0

\* C29: getSessionDuration() is 0 for a session never started; for an open
\* session it is the whole seconds from startedAt to now, so it follows the
\* clock; for an ended session it is the whole seconds from startedAt to
\* endedAt, and stays what it is when the clock moves on.
C29_SessionDuration ==
    /\ [](blurtingQ = blurting =>
            /\ NeverStarted => getSessionDuration(blurting) = 0
            /\ SessionOpen =>
                  /\ getSessionDuration(blurting) * TicksPerSec <= now - blurting.startedAt
                  /\ now - blurting.startedAt < (getSessionDuration(blurting) + 1) * TicksPerSec
            /\ SessionEnded =>
                  /\ getSessionDuration(blurting) * TicksPerSec
                        <= blurting.endedAt - blurting.startedAt
                  /\ blurting.endedAt - blurting.startedAt
                        < (getSessionDuration(blurting) + 1) * TicksPerSec)
    /\ [][(last' = "advance" /\ SessionEnded) =>
             getSessionDuration(blurting)' = getSessionDuration(blurting)]_vars

\* an ended session of at least one second, read again after the clock moved on
C29_ReadLongAfterEnd ==
    /\ last = "advance"
    /\ blurtingQ = blurting
    /\ SessionEnded
    /\ getSessionDuration(blurting) >= 1
    /\ now >= blurting.endedAt + 2 * TicksPerSec

(* ----------------------- properties of the allocator ------------------- *)
\* C30: the allocator returns no plan exactly for the durations below 25
\* minutes, so never the shortest plan (that of 25 minutes) for one of them;
\* the form filled from a rejected duration does not hold that plan either, and
\* no timed-session event shorter than 25 minutes is ever submitted.
C30_ShortEventsRejected ==
    /\ [](/\ totalMinutes # NoDates =>
               /\ plan = calculateDefaultPomodoroSettings(totalMinutes)
               /\ totalMinutes < 25 <=> plan = NoPlan
               /\ totalMinutes < 25 => plan # calculateDefaultPomodoroSettings(25)
          /\ saved # NoSaved /\ saved.isPomodoro => saved.minutes >= 25)
    /\ [][(last' = "dates" /\ totalMinutes' < 25) =>
             ~(/\ formState'.inputDuration = 25
               /\ formState'.outputDuration = 0)]_vars

\* the form was opened on a slot shorter than 25 minutes and the allocator
\* returned no plan
C30_ShortSlotOpened ==
    /\ last = "dates"
    /\ totalMinutes = 24
    /\ plan = NoPlan
    /\ eventType = "pomodoro"
    /\ formState.minutes = 24

\* the duration plan of the specification, read off the allocator's result
DurationPlan(focus, recall, break, repetitions) ==
    /\ plan # NoPlan
    /\ plan.inputDuration = focus
    /\ plan.outputDuration = recall
    /\ plan.longBreakDuration = break
    /\ plan.sets = repetitions

\* C31: for every duration from 25 to 29 minutes the allocator returns the
\* focus-only plan: focus 25, recall 0, break 0, one repetition.
C31_FocusOnlyPlan ==
    (totalMinutes >= 25 /\ totalMinutes < 30) => DurationPlan(25, 0, 0, 1)

\* the form was opened on a slot of 29 minutes
C31_Opened29Minutes ==
    /\ last = "dates"
    /\ totalMinutes = 29
    /\ plan.inputDuration = 25

C33_CustomCycle ==
    (totalMinutes >= 30 /\ totalMinutes % 30 # 0) => DurationPlan(20, 5, 15, 1)

\* the form was opened on a slot of 45 minutes
C33_Opened45Minutes ==
    /\ last = "dates"
    /\ totalMinutes = 45
    /\ plan.sets = 1
    /\ ~plan.isStandardCycle

\* C40: every plan the allocator returns fits the event:
\* repetitions * (focus + recall + break) <= totalMinutes.
C40_PlanFitsEvent ==
    (totalMinutes # NoDates /\ plan # NoPlan)
        => plan.sets * (plan.inputDuration + plan.outputDuration + plan.longBreakDuration)
              <= totalMinutes

(* ------------------ properties of the calendar, continued -------------- *)
\* the event the component is bound to is deleted in this step
DeletesBound(e) ==
    /\ last' = "delete"
    /\ activePomodoro # NoActive
    /\ activePomodoro.id = e

C35_AtMostOneInterval == leaked = 0

\* C36: in every reachable state the remaining time is at most the total of
\* the current phase, in what the hook shows and in what it has queued.
C36_RemainingAtMostTotal ==
    /\ state.remainingSeconds <= state.totalSeconds
    /\ stateQ.remainingSeconds <= stateQ.totalSeconds

\* the page is reloaded in this step while the session of an event is paused
ReloadedWhilePaused ==
    /\ hook = "persistent"
    /\ props.eventId # NoEvent
    /\ pauseState = "paused"
    /\ state.phase \in ActivePhases
    /\ ~state.isRunning
    /\ last' = "mount"
    /\ props' = props

\* C37: a pause survives a reload: the timer mounted from persistence while the
\* session is paused is in the phase it was paused in, with the remaining time
\* it had before the reload.
C37_PauseSurvivesRemount ==
    [][ReloadedWhilePaused =>
          /\ stateQ'.phase = state.phase
          /\ stateQ'.remainingSeconds = state.remainingSeconds]_vars

\* a completion record has been posted for event e: its session was completed,
\* the event unbound and the timer reset
Completed(e) == \E i \in 1..Len(logged) : logged[i].eventId = e

\* the step starts a Focus phase for event e inside its window [startAt, endAt)
StartsFocusFor(e) ==
    /\ stateQ'.phase = "input"
    /\ stateQ.phase # "input"
    /\ storedStateQ'.eventId = e
    /\ \E i \in 1..Len(events) :
          /\ events[i].id = e
          /\ events[i].startAt <= now
          /\ now < events[i].endAt

\* C38 as stated: one session per event window: no Focus phase is started for
\* an event whose session has been completed, while the event's window
\* contains now.
C38_OneSessionPerWindow ==
    [][\A e \in CalEventIds : Completed(e) => ~StartsFocusFor(e)]_vars

\* the selector's check finds event e
Finds(e) == findActivePomodoro(events) # NoActive /\ findActivePomodoro(events).id = e

\* C38, amended: sessions per event window are not limited to one.  After the
\* session of an event has been completed, the render that commits the
\* unbinding binds the event again if the selector still finds it, and the
\* render that commits this binding with the timer idle starts a new Focus
\* phase with the event's durations, persisted under the event's key.
C38_CompletedEventStartsAgain ==
    [][\A e \in CalEventIds : Completed(e) =>
          /\ (last' = "render" /\ activePomodoro # NoActive /\ activePomodoroQ = NoActive
              /\ Finds(e)) =>
                activePomodoroQ' = findActivePomodoro(events)
          /\ (last' = "render" /\ activePomodoro = NoActive /\ activePomodoroQ # NoActive
              /\ activePomodoroQ.id = e /\ stateQ.phase = "idle") =>
                /\ stateQ'.phase = "input"
                /\ stateQ'.isRunning
                /\ stateQ'.remainingSeconds = activePomodoroQ.inputDuration * SecPerMin
                /\ ls'.records[e].phase = "input"
                /\ calls' = <<"input">>]_vars

\* a second Focus phase has been started for an event whose session was
\* completed, inside the event's window
C38_SecondFocusStarted ==
    /\ last = "render"
    /\ activePomodoro # NoActive
    /\ Completed(activePomodoro.id)
    /\ activePomodoro.startAt <= now /\ now < activePomodoro.endAt
    /\ state.phase = "idle"
    /\ stateQ.phase = "input"
    /\ storedStateQ.eventId = activePomodoro.id

(* ----------------------------- progress -------------------------------- *)
\* C39: after start(), with every tick delivered and no pause or reset, the
\* session eventually reaches Completed, with or without an event id.
C39_EverySessionCompletes ==
    (stateQ.phase = "input") ~> (stateQ.phase = "completed")
====
